---- MODULE Spec2Model ----
(***************************************************************************)
(* A model of the RAG pipeline of the CFO dashboard: the chunker, the      *)
(* template loader, the poll-based completion clients, the ingestion and   *)
(* daily-refresh procedures over the Vector Index (Qdrant) and the         *)
(* Metadata Store (Redis), and the two query_rag implementations.          *)
(*                                                                         *)
(* Text is modelled at the level the code works on it: a document fed to   *)
(* the chunker is its sequence of words (text.split()), a chunk is the     *)
(* sequence of words of " ".join(window); a short string whose characters  *)
(* matter (a query, a payment status) is a sequence of one-character       *)
(* strings; a long text of which only the size matters (a serialized       *)
(* table, a PDF's text) is its length in characters.                       *)
(***************************************************************************)
EXTENDS Integers, Sequences, FiniteSets, TLC

VARIABLES
    \* ---- chunker (utils/chunker.py)
    ckText,      \* the words of the text handed to chunk_text
    ckSize,      \* chunk_size argument
    ckOverlap,   \* overlap argument
    ckPc,        \* "call" before chunk_text ran, "done" after it returned, "raised"
    ckOut,       \* the returned list of chunks
    \* ---- template store (prompts/insights.json) and load_template
    templates,   \* the JSON object of the template file: name -> template string
    tmLoaded,    \* what each load_template(name) so far returned ("unloaded" before)
    tmPc,        \* "idle", or "raised" after a load raised
    \* ---- poll-based completion clients
    pollFn,         \* the function called
    pollPc,         \* "submit", "poll", "returned", "raised"
    attempts,       \* call_vllm's attempts counter
    statusRequests, \* status GETs issued so far by this call
    pollEvent,      \* the backend's behaviour at the last request
    pollResult,     \* the value returned to the caller
    \* ---- the stores, the files and the clock
    today,       \* the wall-clock date, a day number
    lastUpdate,  \* data/last_update_date.txt: the date in it, 0 when there is no file
    qExists,     \* Qdrant: whether the collection QDRANT_COLLECTION exists
    qPoints,     \* Qdrant: point id -> [vector, payload] of that collection
    redis,       \* Redis: chunk_id -> the metadata stored under it
    arFile,      \* data/AR_Invoice.csv: its records
    apFile,      \* data/AP_Invoice.csv: its records
    csvColl,     \* Qdrant: the collection "ar_invoices": whether it exists, its points
    \* ---- the call in progress (ingest_document or query_rag) and its locals
    op,          \* "none", "ingest_document", "query_rag", "RAG.query_rag"
    pc,          \* its position; "idle", "returned", "raised" between calls
    excName,     \* the exception the last call raised, "none" otherwise
    requests,    \* the calls to files and services the call in progress has made
    ingQueue,    \* the paths still to ingest (ingest_all_data ingests several)
    ingChunks,   \* ingest_document: the chunks not yet stored
    ingPoints,   \* ingest_document: points_to_upsert
    qr,          \* query_rag: its arguments and local variables
    \* ---- parse_csv (utils/parser.py)
    csvReader,   \* what csv.reader yields for the file: the header, then the records
    tablePc,     \* "call" before parse_csv ran, "returned" after
    tableOut,    \* the returned list
    \* ---- a second query_rag call, running at the same time as the first
    pcB,         \* its position
    todayStrB,   \* its today_str in check_and_update_data
    resultsB     \* the ids its search returned

chunkVars == <<ckText, ckSize, ckOverlap, ckPc, ckOut>>
tmplVars == <<templates, tmLoaded, tmPc>>
pollVars == <<pollFn, pollPc, attempts, statusRequests, pollEvent, pollResult>>

storeVars == <<today, lastUpdate, qExists, qPoints, redis, arFile, apFile, csvColl>>
callVars == <<op, pc, excName, requests, ingQueue, ingChunks, ingPoints, qr>>
pipeVars == <<storeVars, callVars>>
parseVars == <<csvReader, tablePc, tableOut>>
concVars == <<pcB, todayStrB, resultsB>>

vars == <<chunkVars, tmplVars, pollVars, pipeVars, parseVars, concVars>>

Min(a, b) == IF a < b THEN a ELSE b
Max(a, b) == IF a > b THEN a ELSE b

\* s[:n] and s[-n:] of a Python list, for n >= 1
FirstN(s, n) == SubSeq(s, 1, Min(n, Len(s)))
LastN(s, n) == SubSeq(s, Max(1, Len(s) - n + 1), Len(s))

(***************************************************************************)
(* The parts of the state a specification does not exercise rest at these  *)
(* values.                                                                 *)
(***************************************************************************)
ChunkIdle ==
    /\ ckText = <<>>
    /\ ckSize = 0
    /\ ckOverlap = 0
    /\ ckPc = "idle"
    /\ ckOut = <<>>

TemplIdle ==
    /\ templates = [n \in {"default"} |-> "T_default"]
    /\ tmLoaded = [n \in {} |-> "unloaded"]
    /\ tmPc = "idle"

PollIdle ==
    /\ pollFn = "none"
    /\ pollPc = "idle"
    /\ attempts = 0
    /\ statusRequests = 0
    /\ pollEvent = <<"none", "-", "-">>
    /\ pollResult = "none"

ParseIdle ==
    /\ csvReader = <<>>
    /\ tablePc = "idle"
    /\ tableOut = <<>>

ConcIdle ==
    /\ pcB = "idle"
    /\ todayStrB = 0
    /\ resultsB = <<>>

\* a Qdrant collection that does not exist
NoCollection == [exists |-> FALSE, points |-> <<>>]

\* the locals of query_rag before a call
QrIdle ==
    [query |-> <<>>, template_name |-> "default", today_str |-> 0,
     failure |-> "none", results |-> <<>>, misses |-> {}, docs |-> <<>>,
     reranked |-> <<>>, top_matches |-> [docs |-> <<>>, len |-> 0],
     today |-> 0, ar_df |-> <<>>, ap_df |-> <<>>,
     ar_filtered |-> <<>>, ap_filtered |-> <<>>,
     ar_csv |-> [rows |-> <<>>, len |-> 0], ap_csv |-> [rows |-> <<>>, len |-> 0],
     po_text |-> 0, reg_text |-> 0,
     prompt |-> [template |-> "none", now_str |-> 0, next_week_str |-> 0],
     result |-> "none"]

CallIdle ==
    /\ op = "none"
    /\ pc = "idle"
    /\ excName = "none"
    /\ requests = {}
    /\ ingQueue = <<>>
    /\ ingChunks = <<>>
    /\ ingPoints = <<>>
    /\ qr = QrIdle

PipeIdle ==
    /\ today = 1
    /\ lastUpdate = 0
    /\ qExists = FALSE
    /\ qPoints = <<>>
    /\ redis = <<>>
    /\ arFile = <<>>
    /\ apFile = <<>>
    /\ csvColl = NoCollection
    /\ CallIdle

(***************************************************************************)
(* utils/chunker.py                                                        *)
(***************************************************************************)
chunk_size_default == 500
overlap_default == 100

\* bounds of the texts the chunker is run on
MaxWords == 1000
MaxSmallWords == 9
VocabSize == 7

\* list(range(0, n, step)) for step > 0, as the sequence 0, step, 2*step, ...
range_from_zero(n, step) ==
    [k \in 1..((n + step - 1) \div step) |-> (k - 1) * step]

\* words[i : i + size] for 0 <= i and 0 <= size (0-based i)
slice(words, i, size) == SubSeq(words, i + 1, Min(i + size, Len(words)))

\* the body of chunk_text's loop over range(0, len(words), step): the windows in
\* order, the empty ones (chunk.strip() is falsy) dropped
chunk_windows(words, size, step) ==
    LET starts == range_from_zero(Len(words), step)
        keep == {k \in 1..Len(starts) : slice(words, starts[k], size) # <<>>}
        \* the k-th kept window, in order
        nth[k \in 1..Cardinality(keep)] ==
            CHOOSE j \in keep : Cardinality({m \in keep : m < j}) = k - 1
    IN [k \in 1..Cardinality(keep) |-> slice(words, starts[nth[k]], size)]

\* a plausible slip: a last window of fewer than chunk_size words is dropped
chunk_text_full_windows(words, size, overlap) ==
    IF size - overlap = 0
    THEN [raised |-> "ValueError", chunks |-> <<>>]
    ELSE IF size - overlap < 0
    THEN [raised |-> "none", chunks |-> <<>>]
    ELSE LET is_full(w) == Len(w) = size IN
         [raised |-> "none",
          chunks |-> SelectSeq(chunk_windows(words, size, size - overlap), is_full)]

\* a plausible slip: the window advances by chunk_size, so windows do not overlap
chunk_text_no_overlap(words, size, overlap) ==
    [raised |-> "none", chunks |-> chunk_windows(words, size, size)]

\* chunk_text(text, chunk_size, overlap): range() raises ValueError on a zero step
\* and is empty on a negative one
chunk_text(words, size, overlap) ==
    IF size - overlap = 0
    THEN [raised |-> "ValueError", chunks |-> <<>>]
    ELSE IF size - overlap < 0
    THEN [raised |-> "none", chunks |-> <<>>]
    ELSE [raised |-> "none", chunks |-> chunk_windows(words, size, size - overlap)]

\* the texts: L distinct words, or L words over a small vocabulary
DistinctText(L) == [i \in 1..L |-> i]
PeriodicText(L) == [i \in 1..L |-> ((i - 1) % VocabSize) + 1]

\* the (chunk_size, overlap) pairs chunk_text is called with: the defaults, small
\* windows, and pairs whose overlap is the chunk size or more
ChunkParams ==
    {<<chunk_size_default, overlap_default>>, <<5, 2>>, <<3, 1>>, <<4, 0>>,
     <<3, 3>>, <<2, 3>>, <<1, 4>>}

InitChunk ==
    /\ \E p \in ChunkParams :
         /\ ckSize = p[1]
         /\ ckOverlap = p[2]
         /\ \E L \in 0..(IF p[1] = chunk_size_default THEN MaxWords ELSE MaxSmallWords) :
              ckText \in {DistinctText(L), PeriodicText(L)}
    /\ ckPc = "call"
    /\ ckOut = <<>>
    /\ TemplIdle
    /\ PollIdle
    /\ PipeIdle
    /\ ParseIdle
    /\ ConcIdle

chunk_text_call ==
    /\ ckPc = "call"
    /\ LET r == chunk_text(ckText, ckSize, ckOverlap) IN
         /\ ckPc' = IF r.raised = "none" THEN "done" ELSE "raised"
         /\ ckOut' = r.chunks
    /\ UNCHANGED <<ckText, ckSize, ckOverlap, tmplVars, pollVars, pipeVars, parseVars, concVars>>

NextChunk == chunk_text_call

SpecChunk == InitChunk /\ [][NextChunk]_vars

(***************************************************************************)
(* C10: with chunk_size=500 and overlap=100, for every consecutive pair    *)
(* chunk[i], chunk[i+1] the last 100 words of chunk[i] are exactly the     *)
(* first 100 words of chunk[i+1]; the one exception is a final chunk of    *)
(* fewer than 100 words, which is then wholly the tail of chunk[i].        *)
(***************************************************************************)
C10_ChunkOverlap ==
    (ckPc = "done" /\ ckSize = chunk_size_default /\ ckOverlap = overlap_default) =>
        \A i \in 1..(Len(ckOut) - 1) :
            LET a == ckOut[i]
                b == ckOut[i + 1]
                final == (i + 1 = Len(ckOut))
            IN /\ (~final \/ Len(b) >= overlap_default) =>
                      /\ Len(a) >= overlap_default
                      /\ LastN(a, overlap_default) = FirstN(b, overlap_default)
                      /\ Len(FirstN(b, overlap_default)) = overlap_default
               /\ (final /\ Len(b) < overlap_default) => b = LastN(a, Len(b))

\* three chunks of distinct words, the last one shorter than the overlap
C10_Witness ==
    /\ ckPc = "done"
    /\ ckSize = chunk_size_default
    /\ ckOverlap = overlap_default
    /\ Len(ckOut) = 3
    /\ Len(ckOut[3]) < overlap_default
    /\ ckText = DistinctText(Len(ckText))

\* C11: chunk_text called with overlap >= chunk_size fails at once with an
\* error, for every such pair; it never returns a chunk list (empty or partial).
C11_OverlapGuarded ==
    (ckPc # "call" /\ ckOverlap >= ckSize) => ckPc = "raised"

TemplateNames == {"default", "ar_warning_summary", "ap_warning_summary", "nonexistent_name"}
TemplateTexts == {"T_default", "T_ar", "T_ap"}

\* a plausible slip: the fallback is returned whatever the name
load_template_always_default(store, template_name) ==
    IF "default" \notin DOMAIN store
    THEN [raised |-> "KeyError", value |-> "none"]
    ELSE [raised |-> "none", value |-> store["default"]]

\* templates.get(template_name, templates["default"]): the default argument is
\* evaluated before get is called, so a store without "default" raises KeyError
load_template(store, template_name) ==
    IF "default" \notin DOMAIN store
    THEN [raised |-> "KeyError", value |-> "none"]
    ELSE IF template_name \in DOMAIN store
    THEN [raised |-> "none", value |-> store[template_name]]
    ELSE [raised |-> "none", value |-> store["default"]]

\* the template file holds the mandatory "default" entry and any of the others
InitTemplate ==
    /\ \E D \in SUBSET (TemplateNames \ {"default", "nonexistent_name"}) :
         templates \in [D \cup {"default"} -> TemplateTexts]
    /\ tmLoaded = [n \in TemplateNames |-> "unloaded"]
    /\ tmPc = "idle"
    /\ ChunkIdle
    /\ PollIdle
    /\ PipeIdle
    /\ ParseIdle
    /\ ConcIdle

load_template_call(template_name) ==
    /\ tmPc = "idle"
    /\ LET r == load_template(templates, template_name) IN
         /\ tmPc' = IF r.raised = "none" THEN "idle" ELSE "raised"
         /\ tmLoaded' = IF r.raised = "none"
                        THEN [tmLoaded EXCEPT ![template_name] = r.value]
                        ELSE tmLoaded
    /\ UNCHANGED <<templates, chunkVars, pollVars, pipeVars, parseVars, concVars>>

NextTemplate == \E n \in TemplateNames : load_template_call(n)

SpecTemplate == InitTemplate /\ [][NextTemplate]_vars

(***************************************************************************)
(* C9: load_template(name) returns the template stored under name when the *)
(* store has that key and the value stored under "default" otherwise; a    *)
(* load never raises on a store holding "default", leaves the store as it  *)
(* is, and a repeated load of a name returns what the earlier load did.    *)
(***************************************************************************)
C9_LoadTemplate ==
    /\ [](/\ tmPc = "idle"
          /\ \A n \in TemplateNames :
               tmLoaded[n] # "unloaded" =>
                   tmLoaded[n] = IF n \in DOMAIN templates
                                 THEN templates[n]
                                 ELSE templates["default"])
    /\ [][/\ templates' = templates
          /\ \A n \in TemplateNames :
               tmLoaded[n] # "unloaded" => tmLoaded'[n] = tmLoaded[n]]_vars

\* a stored name and an unknown name have both been loaded, with different results
C9_Witness ==
    /\ "ar_warning_summary" \in DOMAIN templates
    /\ templates["ar_warning_summary"] # templates["default"]
    /\ tmLoaded["ar_warning_summary"] = templates["ar_warning_summary"]
    /\ tmLoaded["nonexistent_name"] = templates["default"]

(***************************************************************************)
(* Poll-based completion clients: utils/llm_client.call_vllm and the       *)
(* services' run_rag_job, run_rag_document_job, run_forecast_job.  One     *)
(* call is followed from its submission to its return or raise; the        *)
(* backend's answer to each request is any of the behaviours below.        *)
(***************************************************************************)
max_attempts == 100

\* the status counter of the uncapped loops saturates here
StatusCap == 3

PollFns == {"call_vllm", "run_rag_job", "run_rag_document_job", "run_forecast_job"}

\* Python's exception classes: requests.exceptions.* derive from RequestException
RequestExceptions == {"Timeout", "ConnectionError", "HTTPError", "JSONDecodeError"}
OtherExceptions == {"KeyError", "AttributeError"}

\* what POST /run can do: a job id, a JSON object without "id", an HTTP error
\* status (raise_for_status), no answer in time, no connection, a body that is
\* not JSON, a JSON body that is not an object
SubmitBehaviours ==
    {<<w, "-", "-">> : w \in {"accepted", "no_id", "HTTPError", "Timeout",
                              "ConnectionError", "JSONDecodeError", "AttributeError"}}

\* what GET /status/<id> can do: a non-terminal status, COMPLETED with one of the
\* output shapes, FAILED, or a failure of the request; "KeyError" is a JSON
\* object without "status".  A behaviour is <<what, output shape, text kind>>.
OutputShapes == {"no_output", "tokens", "string", "other"}
TextKinds == {"empty", "generated", "generated_empty", "plain", "junk_only"}
StatusBehaviours ==
    {<<w, "-", "-">> : w \in {"IN_QUEUE", "IN_PROGRESS", "FAILED", "Timeout",
                              "ConnectionError", "HTTPError", "JSONDecodeError",
                              "KeyError"}}
    \cup {<<"COMPLETED", o, t>> : o \in OutputShapes, t \in TextKinds}

MsgSubmitFailed == "Error: Failed to submit job to LLM."
MsgNoOutput == "Error: No output from LLM."
MsgParseError == "Error parsing LLM response"
MsgJobFailed == "Error: LLM job failed."
MsgTimedOut == "Error: LLM request timed out."
MsgTimedOut300 == "Error: LLM request timed out after 300 seconds (5 minutes)."
MsgStatusError == "Error checking LLM status"
MsgCommError == "Error communicating with LLM service"
MsgUnexpected == "An unexpected error occurred"
MsgNoValid == "No valid response received from LLM."
GeneratedText == "<generated text>"
EmptyString == ""

ErrorMessages ==
    {MsgSubmitFailed, MsgNoOutput, MsgParseError, MsgJobFailed, MsgTimedOut,
     MsgTimedOut300, MsgStatusError, MsgCommError, MsgUnexpected}
MessageStrings == ErrorMessages \cup {MsgNoValid, GeneratedText, EmptyString}

\* clean_output(text), by the kind of text: empty; holding a 'generated_text'
\* field (whose content, stripped, is returned: possibly the empty string);
\* plain text; text of which the clean-up leaves nothing
clean_output(kind) ==
    CASE kind = "empty" -> MsgNoValid
      [] kind = "generated" -> GeneratedText
      [] kind = "generated_empty" -> EmptyString
      [] kind = "plain" -> GeneratedText
      [] kind = "junk_only" -> MsgNoValid

\* the COMPLETED branch: `if not output` first, then the token list, the string,
\* and str(output) as the last resort
completed_result(shape, kind) ==
    IF shape = "no_output" THEN MsgNoOutput ELSE clean_output(kind)

\* a plausible slip: the outer try has no `except Exception`
outer_except_requests_only(exc) ==
    IF exc \in RequestExceptions
    THEN [pc |-> "returned", result |-> MsgCommError]
    ELSE [pc |-> "raised", result |-> exc]

\* call_vllm's outer try: except RequestException, then except Exception
outer_except(exc) ==
    IF exc \in RequestExceptions
    THEN [pc |-> "returned", result |-> MsgCommError]
    ELSE [pc |-> "returned", result |-> MsgUnexpected]

\* a plausible slip: a status-request timeout does not count as an attempt
poll_step_uncounted_timeout(n, b) ==
    IF b[1] \in {"IN_QUEUE", "IN_PROGRESS"}
    THEN IF n + 1 < max_attempts
         THEN [pc |-> "poll", attempts |-> n + 1, result |-> "none"]
         ELSE [pc |-> "returned", attempts |-> n + 1, result |-> MsgTimedOut300]
    ELSE IF b[1] = "FAILED"
    THEN [pc |-> "returned", attempts |-> n, result |-> MsgJobFailed]
    ELSE IF b[1] = "Timeout"
    THEN [pc |-> "poll", attempts |-> n, result |-> "none"]
    ELSE IF b[1] \in RequestExceptions
    THEN [pc |-> "returned", attempts |-> n, result |-> MsgStatusError]
    ELSE IF b[1] \in OtherExceptions
    THEN [pc |-> outer_except(b[1]).pc, attempts |-> n,
          result |-> outer_except(b[1]).result]
    ELSE [pc |-> "returned", attempts |-> n, result |-> completed_result(b[2], b[3])]

\* one iteration of call_vllm's while loop entered with attempts = n < max_attempts
\* and the backend behaving as b; the loop condition is evaluated again at its end
poll_step(n, b) ==
    IF b[1] \in {"IN_QUEUE", "IN_PROGRESS"}
    THEN IF n + 1 < max_attempts
         THEN [pc |-> "poll", attempts |-> n + 1, result |-> "none"]
         ELSE [pc |-> "returned", attempts |-> n + 1, result |-> MsgTimedOut300]
    ELSE IF b[1] = "FAILED"
    THEN [pc |-> "returned", attempts |-> n, result |-> MsgJobFailed]
    ELSE IF b[1] = "Timeout"
    THEN IF n + 1 >= max_attempts
         THEN [pc |-> "returned", attempts |-> n + 1, result |-> MsgTimedOut]
         ELSE [pc |-> "poll", attempts |-> n + 1, result |-> "none"]
    ELSE IF b[1] \in RequestExceptions
    THEN [pc |-> "returned", attempts |-> n, result |-> MsgStatusError]
    ELSE IF b[1] \in OtherExceptions
    THEN [pc |-> outer_except(b[1]).pc, attempts |-> n,
          result |-> outer_except(b[1]).result]
    ELSE [pc |-> "returned", attempts |-> n, result |-> completed_result(b[2], b[3])]

InitPoll ==
    /\ pollFn \in PollFns
    /\ pollPc = "submit"
    /\ attempts = 0
    /\ statusRequests = 0
    /\ pollEvent = <<"none", "-", "-">>
    /\ pollResult = "none"
    /\ ChunkIdle
    /\ TemplIdle
    /\ PipeIdle
    /\ ParseIdle
    /\ ConcIdle

\* call_vllm, step 1: submit the job
call_vllm_submit ==
    /\ pollFn = "call_vllm"
    /\ pollPc = "submit"
    /\ \E b \in SubmitBehaviours :
         /\ pollEvent' = b
         /\ IF b[1] = "accepted"
            THEN pollPc' = "poll" /\ pollResult' = "none"
            ELSE IF b[1] = "no_id"
            THEN pollPc' = "returned" /\ pollResult' = MsgSubmitFailed
            ELSE /\ pollPc' = outer_except(b[1]).pc
                 /\ pollResult' = outer_except(b[1]).result
    /\ UNCHANGED <<pollFn, attempts, statusRequests, chunkVars, tmplVars, pipeVars, parseVars, concVars>>

\* call_vllm, step 2: one status request of the polling loop
call_vllm_poll ==
    /\ pollFn = "call_vllm"
    /\ pollPc = "poll"
    /\ attempts < max_attempts
    /\ \E b \in StatusBehaviours :
         LET r == poll_step(attempts, b) IN
         /\ pollEvent' = b
         /\ pollPc' = r.pc
         /\ attempts' = r.attempts
         /\ pollResult' = r.result
    /\ statusRequests' = statusRequests + 1
    /\ UNCHANGED <<pollFn, chunkVars, tmplVars, pipeVars, parseVars, concVars>>

\* run_rag_job, run_rag_document_job, run_forecast_job: requests.post and
\* job["id"] outside any try
run_job_submit ==
    /\ pollFn \in PollFns \ {"call_vllm"}
    /\ pollPc = "submit"
    /\ \E b \in {x \in SubmitBehaviours : x[1] # "HTTPError"} :
         /\ pollEvent' = b
         /\ IF b[1] = "accepted"
            THEN pollPc' = "poll" /\ pollResult' = "none"
            ELSE pollPc' = "raised"
                 /\ pollResult' = IF b[1] = "no_id" THEN "KeyError" ELSE b[1]
    /\ UNCHANGED <<pollFn, attempts, statusRequests, chunkVars, tmplVars, pipeVars, parseVars, concVars>>

\* what the three services do with a FAILED job
job_failed_result(fn) ==
    CASE fn = "run_rag_job" -> [pc |-> "returned", result |-> "None"]
      [] fn = "run_rag_document_job" -> [pc |-> "returned", result |-> "Job failed"]
      [] fn = "run_forecast_job" -> [pc |-> "raised", result |-> "RuntimeError"]

\* one iteration of their `while True` loop: no attempt counter, no request
\* timeout, no exception handler
run_job_poll ==
    /\ pollFn \in PollFns \ {"call_vllm"}
    /\ pollPc = "poll"
    /\ \E b \in {x \in StatusBehaviours : x[1] # "HTTPError"} :
         /\ pollEvent' = b
         /\ IF b[1] \in {"IN_QUEUE", "IN_PROGRESS"}
            THEN pollPc' = "poll" /\ pollResult' = "none"
            ELSE IF b[1] = "FAILED"
            THEN /\ pollPc' = job_failed_result(pollFn).pc
                 /\ pollResult' = job_failed_result(pollFn).result
            ELSE IF b[1] \in RequestExceptions \cup OtherExceptions
            THEN pollPc' = "raised" /\ pollResult' = b[1]
            ELSE /\ pollPc' = "returned"
                 /\ pollResult' = IF pollFn = "run_rag_job" THEN "None" ELSE "output"
    /\ statusRequests' = Min(statusRequests + 1, StatusCap)
    /\ UNCHANGED <<pollFn, attempts, chunkVars, tmplVars, pipeVars, parseVars, concVars>>

NextPoll ==
    \/ call_vllm_submit
    \/ call_vllm_poll
    \/ run_job_submit
    \/ run_job_poll

SpecPoll == InitPoll /\ [][NextPoll]_vars

\* the caller's thread keeps running: a call that can take a step takes it
SpecPollFair == SpecPoll /\ WF_vars(NextPoll)

(***************************************************************************)
(* C7: every poll-based completion call (call_vllm, run_rag_job,           *)
(* run_rag_document_job, run_forecast_job) stops polling and returns to    *)
(* its caller, whatever the backend answers: also when it never reports    *)
(* COMPLETED or FAILED.                                                    *)
(***************************************************************************)
C7_EveryPollerReturns == <>(pollPc \in {"returned", "raised"})

(***************************************************************************)
(* C8: call_vllm never raises: whatever the backend does it returns one of *)
(* its message strings, and a FAILED job or an exhausted poll budget       *)
(* yields an error message, never generated text.                          *)
(***************************************************************************)
C8_CallVllmNeverRaises ==
    pollFn = "call_vllm" =>
        /\ pollPc # "raised"
        /\ pollPc = "returned" => pollResult \in MessageStrings
        /\ (pollPc = "returned" /\ pollEvent[1] = "FAILED") => pollResult = MsgJobFailed
        /\ (pollPc = "returned" /\ attempts >= max_attempts) =>
               pollResult \in {MsgTimedOut, MsgTimedOut300}
        /\ pollPc = "poll" => attempts < max_attempts

\* the poll budget was used up by status requests that timed out or answered
\* a non-terminal status, and call_vllm returned
C8_Witness ==
    /\ pollFn = "call_vllm"
    /\ pollPc = "returned"
    /\ attempts = max_attempts
    /\ statusRequests = max_attempts
    /\ pollResult = MsgTimedOut300

\* C30: after a successful submission call_vllm issues at most 100 status
\* requests per call, polls that answered a non-terminal status and polls that
\* timed out counting together; it returns at the first COMPLETED or FAILED
\* status without polling further, aborts at the first request error that is no
\* timeout, and returns the timed-out message once the 100 attempts are used up.
C30_PollBudget ==
    /\ [](pollFn = "call_vllm" =>
            /\ statusRequests <= 100
            /\ attempts <= statusRequests
            /\ pollPc = "poll" => attempts = statusRequests)
    /\ [][(pollFn = "call_vllm" /\ pollPc = "poll") =>
            /\ statusRequests' = statusRequests + 1
            /\ pollEvent'[1] \in {"COMPLETED", "FAILED"} =>
                  (pollPc' = "returned" /\ attempts' = attempts)
            /\ pollEvent'[1] = "FAILED" => pollResult' = MsgJobFailed
            /\ pollEvent'[1] \in {"ConnectionError", "HTTPError", "JSONDecodeError"} =>
                  (pollPc' = "returned" /\ pollResult' = MsgStatusError)
            /\ pollEvent'[1] \in {"IN_QUEUE", "IN_PROGRESS", "Timeout"} =>
                  /\ attempts' = attempts + 1
                  /\ IF statusRequests' = 100
                     THEN /\ pollPc' = "returned"
                          /\ pollResult' \in {MsgTimedOut, MsgTimedOut300}
                     ELSE pollPc' = "poll" /\ pollResult' = "none"]_vars
    /\ [][(pollFn = "call_vllm" /\ pollPc \in {"returned", "raised"}) =>
            statusRequests' = statusRequests]_vars

\* the hundredth status request answered COMPLETED after 99 polls that timed
\* out or answered a non-terminal status
C30_Witness ==
    /\ pollFn = "call_vllm"
    /\ pollPc = "returned"
    /\ statusRequests = 100
    /\ attempts = 99
    /\ pollEvent[1] = "COMPLETED"
    /\ pollResult = GeneratedText

(***************************************************************************)
(* Strings of the query pipeline.  A string whose characters the code      *)
(* inspects is a sequence of one-character strings.                        *)
(***************************************************************************)
\* str.lower(), on the letters that occur in the model's strings
lower_char(c) ==
    CASE c = "A" -> "a" [] c = "C" -> "c" [] c = "D" -> "d" [] c = "E" -> "e"
      [] c = "I" -> "i" [] c = "L" -> "l" [] c = "N" -> "n" [] c = "O" -> "o"
      [] c = "P" -> "p" [] c = "R" -> "r" [] c = "T" -> "t" [] c = "U" -> "u"
      [] c = "V" -> "v" [] c = "W" -> "w"
      [] OTHER -> c

lower(s) == [i \in 1..Len(s) |-> lower_char(s[i])]

\* `k in s` for strings
contains(s, k) ==
    \E i \in 1..(Len(s) - Len(k) + 1) : SubSeq(s, i, i + Len(k) - 1) = k

\* the keyword lists of the intent filter
kw_upcoming == <<"u", "p", "c", "o", "m", "i", "n", "g">>
kw_this_week == <<"t", "h", "i", "s", " ", "w", "e", "e", "k">>
kw_next_week == <<"n", "e", "x", "t", " ", "w", "e", "e", "k">>
kw_overdue == <<"o", "v", "e", "r", "d", "u", "e">>
kw_late == <<"l", "a", "t", "e">>
kw_crossed == <<"c", "r", "o", "s", "s", "e", "d">>

UpcomingKeywords == {kw_upcoming, kw_this_week, kw_next_week}
OverdueKeywords == {kw_overdue, kw_late, kw_crossed}

\* the payment statuses of the invoice files
not_paid == <<"n", "o", "t", " ", "p", "a", "i", "d">>
PayNotPaid == not_paid
PayNotPaidCaps == <<"N", "o", "t", " ", "P", "a", "i", "d">>
PayPaid == <<"P", "a", "i", "d">>
PaymentStatuses == {PayNotPaid, PayNotPaidCaps, PayPaid}

\* the queries put to query_rag
QOverdue == <<"O", "v", "e", "r", "d", "u", "e", "?">>
QOverdueCaps == <<"O", "V", "E", "R", "D", "U", "E">>
QUpcomingOverdue ==
    <<"u", "p", "c", "o", "m", "i", "n", "g", " ", "o", "v", "e", "r", "d", "u", "e">>
QNextWeek == <<"d", "u", "e", " ", "N", "e", "x", "t", " ", "W", "e", "e", "k">>
QCalculate == <<"c", "a", "l", "c", "u", "l", "a", "t", "e">>
QTotals == <<"t", "o", "t", "a", "l", "s">>
QThisWeek == <<"T", "h", "i", "s", " ", "w", "e", "e", "k", "?">>
QCrossed == <<"c", "r", "o", "s", "s", "e", "d">>
AllQueries ==
    {QOverdue, QOverdueCaps, QUpcomingOverdue, QNextWeek, QCalculate, QTotals,
     QThisWeek, QCrossed}
StoreQueries == {QOverdue, QTotals}

(***************************************************************************)
(* Dates are day numbers; pd.NaT is NaT.  A Due Date cell is a date that   *)
(* parses or text that does not.                                           *)
(***************************************************************************)
NaT == -1
MaxDay == 2
Days == 1..MaxDay

DateCell(d) == [kind |-> "date", day |-> d]
GarbageCell == [kind |-> "garbage", day |-> 0]
\* the due dates of the invoice files: with today in Days they fall the day
\* before today, on today, 7 days and 8 days after it
DueCells == {GarbageCell, DateCell(1), DateCell(9)}

\* pd.to_datetime(cell, errors="coerce")
to_datetime_coerce(cell) == IF cell.kind = "date" THEN cell.day ELSE NaT

\* the invoice rows and tables (a CSV file's records, in file order)
MaxRows == 2
\* the Status column update_invoice_status_and_save writes: absent, or a category
\* with its number of days
NoStatus == [cat |-> "none", days |-> 0]
InvoiceRows == [due : DueCells, pay : PaymentStatuses, stored : {NoStatus}]
TablesOfLen(n) == [1..n -> InvoiceRows]
InvoiceTables == UNION {TablesOfLen(n) : n \in 0..MaxRows}

(***************************************************************************)
(* query_rag, step 3: label_status (utils/pipeline.py)                     *)
(***************************************************************************)
\* a plausible slip: the date is tested before the payment status, so a paid
\* invoice whose due date has passed is flagged Overdue
status_fn_date_first(due, pay, now) ==
    IF due = NaT THEN "Unknown"
    ELSE IF due < now THEN "Overdue"
    ELSE IF lower(pay) # not_paid THEN "Paid"
    ELSE IF now <= due /\ due <= now + 7 THEN "Upcoming"
    ELSE "Future"

\* status_fn(row), with row["Due Date"] already coerced and next_week = today + 7
status_fn(due, pay, now) ==
    IF due = NaT THEN "Unknown"
    ELSE IF lower(pay) # not_paid THEN "Paid"
    ELSE IF due < now THEN "Overdue"
    ELSE IF now <= due /\ due <= now + 7 THEN "Upcoming"
    ELSE "Future"

\* a plausible slip: a Status the file already holds is kept
label_status_keeps_stored(table, now) ==
    [i \in 1..Len(table) |->
        [due |-> to_datetime_coerce(table[i].due),
         pay |-> table[i].pay,
         Status |-> IF table[i].stored.cat # "none" THEN table[i].stored.cat
                    ELSE status_fn(to_datetime_coerce(table[i].due),
                                   table[i].pay, now)]]

\* label_status(df) after the Due Date column was normalized: every row gets
\* its Due Date coerced and a Status, which replaces the file's Status column
label_status(table, now) ==
    [i \in 1..Len(table) |->
        [due |-> to_datetime_coerce(table[i].due),
         pay |-> table[i].pay,
         Status |-> status_fn(to_datetime_coerce(table[i].due), table[i].pay, now)]]

(***************************************************************************)
(* query_rag, step 4: the intent filter                                    *)
(***************************************************************************)
\* a plausible slip: the overdue keywords are tested first
intent_overdue_first(query) ==
    LET q_lower == lower(query) IN
    IF \E k \in OverdueKeywords : contains(q_lower, k) THEN "overdue"
    ELSE IF \E k \in UpcomingKeywords : contains(q_lower, k) THEN "upcoming"
    ELSE "general"

\* which branch of the if / elif / else the query takes
intent(query) ==
    LET q_lower == lower(query) IN
    IF \E k \in UpcomingKeywords : contains(q_lower, k) THEN "upcoming"
    ELSE IF \E k \in OverdueKeywords : contains(q_lower, k) THEN "overdue"
    ELSE "general"

\* df[df["Status"] == status]: the rows with that Status, in order
RECURSIVE select_status(_, _)
select_status(df, status) ==
    IF df = <<>> THEN <<>>
    ELSE IF Head(df).Status = status
         THEN <<Head(df)>> \o select_status(Tail(df), status)
         ELSE select_status(Tail(df), status)

\* a plausible slip: the filter keeps the rows that are not overdue
filter_by_intent_inverted(df, query) ==
    CASE intent(query) = "upcoming" -> select_status(df, "Upcoming")
      [] intent(query) = "overdue" -> select_status(df, "Paid")
      [] OTHER -> df

filter_by_intent(df, query) ==
    CASE intent(query) = "upcoming" -> select_status(df, "Upcoming")
      [] intent(query) = "overdue" -> select_status(df, "Overdue")
      [] OTHER -> df

(***************************************************************************)
(* Sizes.  A long text is its length in characters.                        *)
(***************************************************************************)
max_len == 5000
EllipsisChars == 3

\* bounds on the sizes of the inputs: characters per word of a PDF, the words of
\* the two PDFs, the characters of a CSV header line and of the cells of a CSV
\* row other than the payment status and the Status
WordChars == 12
PoWords == 400
RegWords == 3
CsvHeaderChars == 90
RowChars == 2600

\* truncate(txt): txt[:max_len] + "..." if len(txt) > max_len else txt
truncate(n) == IF n > max_len THEN max_len + EllipsisChars ELSE n

\* len(" ".join(words))
text_chars(nwords) == IF nwords = 0 THEN 0 ELSE nwords * (WordChars + 1) - 1

StatusChars(s) ==
    CASE s = "Unknown" -> 7 [] s = "Paid" -> 4 [] s = "Overdue" -> 7
      [] s = "Upcoming" -> 8 [] s = "Future" -> 6 [] OTHER -> 0

RECURSIVE SumChars(_)
SumChars(lens) == IF lens = <<>> THEN 0 ELSE Head(lens) + SumChars(Tail(lens))

\* df.to_csv(index=False): a header line, then one line per row; the text with
\* the rows it holds
csv_row_chars(row) == RowChars + Len(row.pay) + StatusChars(row.Status) + 1
to_csv(df) ==
    [rows |-> df,
     len |-> CsvHeaderChars + SumChars([i \in 1..Len(df) |-> csv_row_chars(df[i])])]

\* truncate() of a serialized table: the rows that begin within the first
\* max_len characters stay (the last of them possibly cut)
truncate_csv(csv) ==
    IF csv.len <= max_len THEN csv
    ELSE LET starts(i) ==
                 CsvHeaderChars
                 + SumChars([j \in 1..(i - 1) |-> csv_row_chars(csv.rows[j])])
             kept == {i \in 1..Len(csv.rows) : starts(i) < max_len}
         IN [rows |-> SubSeq(csv.rows, 1, Cardinality(kept)),
             len |-> truncate(csv.len)]

\* parse_csv(path)[0]: the markdown table of a CSV file: "| " + " | ".join(cells)
\* + " |" per line, the lines joined by newlines
markdown_chars(table) ==
    CsvHeaderChars + 2 * (Len(table) + 1)
    + SumChars([i \in 1..Len(table) |-> RowChars + Len(table[i].pay) + 3])

(***************************************************************************)
(* The documents on disk                                                   *)
(***************************************************************************)
PoPath == "data/PO_T&C.pdf"
RegPath == "data/RPSR_RPSCSR_UAE.pdf"
ArPath == "data/AR_Invoice.csv"
TxtPath == "data/notes.txt"
\* a PDF of more than one chunk
LongPath == "data/contract.pdf"
LongWords == 401
\* a PDF without text (scanned pages): parse_pdf gives "" or whitespace
EmptyPath == "data/scan.pdf"
IngestPaths == {RegPath, ArPath, TxtPath}

\* a plausible slip: every path that is no PDF is taken for a CSV file
path_kind_csv_fallback(path) ==
    IF path \in {PoPath, RegPath, LongPath, EmptyPath} THEN "pdf" ELSE "csv"

\* path.endswith(".pdf") / path.endswith(".csv") / else
path_kind(path) ==
    IF path \in {PoPath, RegPath, LongPath, EmptyPath} THEN "pdf"
    ELSE IF path = ArPath THEN "csv"
    ELSE "other"

\* parse_pdf(path).split(): the words of a PDF's text
pdf_words(path) ==
    IF path = PoPath THEN DistinctText(PoWords)
    ELSE IF path = LongPath THEN DistinctText(LongWords)
    ELSE IF path = EmptyPath THEN <<>>
    ELSE DistinctText(RegWords)

\* the chunks ingest_document makes of a document, each as the content stored
\* for it: where it comes from and its length in characters
pdf_contents(path) ==
    LET chunks == chunk_text(pdf_words(path), chunk_size_default, overlap_default).chunks
    IN [i \in 1..Len(chunks) |->
           [doc |-> path, idx |-> i, len |-> text_chars(Len(chunks[i]))]]

csv_contents(path, table) == <<[doc |-> path, idx |-> 1, len |-> markdown_chars(table)]>>

(***************************************************************************)
(* update_invoice_status_and_save (utils/pipeline.py)                      *)
(***************************************************************************)
RECURSIVE lstrip(_)
lstrip(s) == IF s # <<>> /\ Head(s) = " " THEN lstrip(Tail(s)) ELSE s
RECURSIVE rstrip(_)
rstrip(s) ==
    IF s # <<>> /\ s[Len(s)] = " " THEN rstrip(SubSeq(s, 1, Len(s) - 1)) ELSE s
strip(s) == rstrip(lstrip(s))

str_paid == <<"p", "a", "i", "d">>

\* get_status(row) for a row whose Due Date parses
get_status(row, now) ==
    LET delta == row.due.day - now IN
    IF strip(lower(row.pay)) = str_paid THEN [cat |-> "paid", days |-> 0]
    ELSE IF delta < 0 THEN [cat |-> "overdue", days |-> -delta]
    ELSE IF 0 <= delta /\ delta <= 7 THEN [cat |-> "upcoming", days |-> delta]
    ELSE [cat |-> "future", days |-> delta]

\* pd.to_datetime(row["Due Date"]) without errors="coerce" raises on text that is
\* no date; the file is written only after every row was computed
update_invoice_status_and_save(file, now) ==
    IF \E i \in 1..Len(file) : file[i].due.kind # "date"
    THEN [raised |-> "ValueError", file |-> file]
    ELSE [raised |-> "none",
          file |-> [i \in 1..Len(file) |->
                       [file[i] EXCEPT !.stored = get_status(file[i], now)]]]

(***************************************************************************)
(* The Metadata Store (utils/redis_client.py) and the Vector Index         *)
(* (utils/vectorstore_qdrant.py)                                           *)
(***************************************************************************)
MaxIds == 4
top_k_default == 20
top_n_default == 3

EmptyMap == <<>>

\* json.dumps(metadata): the text of a JSON object, as its set of
\* (key, value) members
json_dumps(metadata) == {<<k, metadata[k]>> : k \in DOMAIN metadata}

\* json.loads(data): the map of the object's members
json_loads(data) ==
    [k \in {m[1] : m \in data} |-> (CHOOSE m \in data : m[1] = k)[2]]

\* store_metadata(chunk_id, metadata): SET chunk_id json.dumps(metadata), which
\* replaces what the key held
store_metadata(store, chunk_id, metadata) ==
    (chunk_id :> json_dumps(metadata)) @@ store

\* get_metadata(chunk_id): the stored map, the empty map on a miss
get_metadata(store, chunk_id) ==
    IF chunk_id \in DOMAIN store /\ store[chunk_id] # {}
    THEN json_loads(store[chunk_id])
    ELSE EmptyMap

\* `metadata and "content" in metadata`
has_content(metadata) == DOMAIN metadata # {} /\ "content" \in DOMAIN metadata

\* embed_texts: the vector of a text, a value that stands for it
embed(content) == <<content.doc, content.idx>>

\* cosine similarity of the query's vector and a point's, as an integer score:
\* a fixed deterministic function standing for the embedding model
similarity(query, vector) ==
    (Len(query) * (IF vector[1] = PoPath THEN 3 ELSE 5) + 7 * vector[2]) % 11

\* the ids of `ids` by falling score, ties by id
RECURSIVE by_score(_, _)
by_score(ids, score) ==
    IF ids = {} THEN <<>>
    ELSE LET best == CHOOSE i \in ids :
                        \A j \in ids : score[i] > score[j] \/ (score[i] = score[j] /\ i <= j)
         IN <<best>> \o by_score(ids \ {best}, score)

\* search(query_vector, top_k): the top_k nearest points, best match first
search(points, query, top_k) ==
    LET score == [i \in DOMAIN points |-> similarity(query, points[i].vector)] IN
    FirstN(by_score(DOMAIN points, score), top_k)

\* the rerank model's relevance score of a document for a query: a fixed
\* deterministic function standing for the remote model
relevance(query, doc) == (Len(query) + doc.len + 3 * doc.idx) % 7

\* a plausible slip: the remote service is called whatever the list
rerank_calls_remote_always(docs) == TRUE

\* `if not docs: return []`: whether rerank goes on to co.rerank
rerank_calls_remote(docs) == docs # <<>>

\* rerank(query, docs, top_n) when the remote call answers: the top_n documents
\* by relevance, most relevant first; the empty list for no documents
rerank(query, docs, top_n) ==
    LET score == [i \in 1..Len(docs) |-> relevance(query, docs[i])]
        order == by_score(1..Len(docs), score)
    IN [k \in 1..Min(top_n, Len(docs)) |-> docs[order[k]]]

\* "\n\n".join(docs): the documents joined and the length of the text
join_docs(docs) ==
    [docs |-> docs,
     len |-> IF docs = <<>> THEN 0
             ELSE SumChars([i \in 1..Len(docs) |-> docs[i].len]) + 2 * (Len(docs) - 1)]

(***************************************************************************)
(* Calls.  One call runs at a time; it starts when the previous one has    *)
(* returned or raised.                                                     *)
(***************************************************************************)
AtRest == pc \in {"idle", "returned", "raised"}

\* str(uuid.uuid4()): an id in use nowhere.  Ids are opaque, so the least id
\* that neither store holds stands for it (two calls at once can hold up to
\* MaxIds ids each).
ids_in_use(store, points) == DOMAIN store \cup DOMAIN points

\* a plausible slip: the id does not change from one chunk to the next
uuid4_constant(store, points) == 1

uuid4(store, points) ==
    CHOOSE i \in 1..(2 * MaxIds + 1) :
        /\ i \notin ids_in_use(store, points)
        /\ \A j \in 1..(i - 1) : j \in ids_in_use(store, points)

\* the number of chunks (and of uuids) ingesting a path takes
chunks_of(path) ==
    IF path_kind(path) = "pdf" THEN Len(pdf_contents(path))
    ELSE IF path_kind(path) = "csv" THEN 1
    ELSE 0

\* the documents ingest_all_data ingests
RefreshDocs == <<PoPath, RegPath>>
RefreshIds == chunks_of(PoPath) + chunks_of(RegPath)

\* the clock: a new day starts
day_passes ==
    /\ today < MaxDay
    /\ today' = today + 1
    /\ UNCHANGED <<lastUpdate, qExists, qPoints, redis, arFile, apFile, csvColl>>
    /\ UNCHANGED <<callVars, chunkVars, tmplVars, pollVars, parseVars, concVars>>

(***************************************************************************)
(* ingest_document (utils/pipeline.py; RAG/src/pipeline.py is the same)    *)
(***************************************************************************)
ingest_document_call(path) ==
    /\ AtRest
    /\ Cardinality(ids_in_use(redis, qPoints)) + chunks_of(path) <= MaxIds
    /\ op' = "ingest_document"
    /\ pc' = "ing_begin"
    /\ excName' = "none"
    /\ requests' = {}
    /\ ingQueue' = <<path>>
    /\ ingChunks' = <<>>
    /\ ingPoints' = <<>>
    /\ qr' = QrIdle
    /\ UNCHANGED <<storeVars, chunkVars, tmplVars, pollVars, parseVars, concVars>>

\* parse and chunk the document, embed the chunks, init_collection(dim)
ingest_document_begin ==
    /\ pc = "ing_begin"
    /\ \E failure \in {"none", "embed", "qdrant"} :
         LET path == Head(ingQueue)
             chunks == IF path_kind(path) = "pdf" THEN pdf_contents(path)
                       ELSE csv_contents(path, arFile)
             parser == IF path_kind(path) = "pdf" THEN "parse_pdf" ELSE "parse_csv"
             raise(e, made) == /\ pc' = "raised"
                               /\ excName' = e
                               /\ requests' = requests \cup made
                               /\ ingQueue' = <<>>
                               /\ ingChunks' = <<>>
                               /\ ingPoints' = <<>>
                               /\ UNCHANGED qExists
         IN IF path_kind(path) = "other" THEN raise("ValueError", {})
            ELSE IF failure = "embed"
            THEN raise("EmbeddingError", {parser, "embed_texts"})
            ELSE IF chunks = <<>>
            THEN \* len(vectors[0]) of an empty list
                 raise("IndexError", {parser, "embed_texts"})
            ELSE IF failure = "qdrant"
            THEN raise("QdrantError", {parser, "embed_texts", "init_collection"})
            ELSE \* init_collection: created only when absent
                 /\ qExists' = TRUE
                 /\ requests' = requests \cup {parser, "embed_texts", "init_collection"}
                 /\ ingChunks' = chunks
                 /\ ingPoints' = <<>>
                 /\ pc' = "ing_store"
                 /\ excName' = "none"
                 /\ UNCHANGED ingQueue
    /\ UNCHANGED <<today, lastUpdate, qPoints, redis, arFile, apFile, csvColl>>
    /\ UNCHANGED <<op, qr, chunkVars, tmplVars, pollVars, parseVars, concVars>>

\* a plausible slip: the supplied metadata is left out
full_metadata_without_supplied(metadata, content, chunk_id) ==
    [content |-> content, chunk_id |-> chunk_id]

\* the metadata ingest_document stores for a chunk: {**metadata, "content": chunk,
\* "chunk_id": chunk_id}
full_metadata(metadata, content, chunk_id) ==
    [content |-> content, chunk_id |-> chunk_id] @@ metadata

\* the metadata the callers supply with a document (utils/ingest.py)
metadata_for(path) ==
    IF path = RegPath
    THEN [doc_name |-> "RPS_CSR_ENG.pdf", source_type |-> "regulation"]
    ELSE IF path = PoPath
    THEN [doc_name |-> "PO_T&C.pdf", source_type |-> "terms_and_conditions"]
    ELSE [doc_name |-> path, source_type |-> "upload"]

\* one turn of the loop: a fresh uuid, store_metadata, the point appended
ingest_document_store ==
    /\ pc = "ing_store"
    /\ ingChunks # <<>>
    /\ requests' = requests \cup {"store_metadata"}
    /\ \E ok \in BOOLEAN :
         IF ok
         THEN LET chunk_id == uuid4(redis, qPoints) IN
              /\ redis' = store_metadata(redis, chunk_id,
                                         full_metadata(metadata_for(Head(ingQueue)),
                                                       Head(ingChunks), chunk_id))
              /\ ingPoints' = Append(ingPoints,
                                     [id |-> chunk_id, vector |-> embed(Head(ingChunks)),
                                      payload |-> [chunk_id |-> chunk_id]])
              /\ ingChunks' = Tail(ingChunks)
              /\ pc' = IF Tail(ingChunks) = <<>> THEN "ing_upsert" ELSE "ing_store"
              /\ excName' = "none"
              /\ UNCHANGED ingQueue
         ELSE /\ pc' = "raised"
              /\ excName' = "RedisError"
              /\ ingQueue' = <<>>
              /\ ingChunks' = <<>>
              /\ ingPoints' = <<>>
              /\ UNCHANGED redis
    /\ UNCHANGED <<today, lastUpdate, qExists, qPoints, arFile, apFile, csvColl>>
    /\ UNCHANGED <<op, qr, chunkVars, tmplVars, pollVars, parseVars, concVars>>

\* upsert_embeddings(points_to_upsert): one batch (batch_size = 100); then the
\* next document of ingest_all_data, or the return
ingest_document_upsert ==
    /\ pc = "ing_upsert"
    /\ requests' = requests \cup {"upsert_embeddings"}
    /\ \E ok \in BOOLEAN :
         IF ok /\ qExists
         THEN /\ qPoints' = [i \in {ingPoints[k].id : k \in 1..Len(ingPoints)} |->
                                LET k == CHOOSE k \in 1..Len(ingPoints) : ingPoints[k].id = i
                                IN [vector |-> ingPoints[k].vector,
                                    payload |-> ingPoints[k].payload]] @@ qPoints
              /\ ingQueue' = Tail(ingQueue)
              /\ ingPoints' = <<>>
              /\ pc' = IF Tail(ingQueue) # <<>> THEN "ing_begin"
                       ELSE IF op = "ingest_document" THEN "returned"
                       ELSE "write_date"
              /\ excName' = "none"
         ELSE /\ pc' = "raised"
              /\ excName' = "QdrantError"
              /\ ingQueue' = <<>>
              /\ ingPoints' = <<>>
              /\ UNCHANGED qPoints
    /\ UNCHANGED <<today, lastUpdate, qExists, redis, arFile, apFile, csvColl>>
    /\ UNCHANGED <<op, ingChunks, qr, chunkVars, tmplVars, pollVars, parseVars, concVars>>

(***************************************************************************)
(* check_and_update_data (utils/pipeline.py), the daily refresh that        *)
(* utils query_rag runs first                                              *)
(***************************************************************************)
QueryOps == {"query_rag", "RAG.query_rag"}
QueryTemplateNames == {"default", "nonexistent_name"}

\* a plausible slip: the stored date is not consulted
refresh_due_always == TRUE

\* check_and_update_data: today_str is compared with the date in
\* data/last_update_date.txt (the empty string when the file is absent:
\* lastUpdate = 0)
refresh_due == lastUpdate # today

\* query_rag(query, template_name) of utils/pipeline.py is called; it starts
\* with check_and_update_data(), which goes on to the refresh or returns
query_rag_call(query, template_name) ==
    /\ AtRest
    /\ refresh_due => Cardinality(ids_in_use(redis, qPoints)) + RefreshIds <= MaxIds
    /\ op' = "query_rag"
    /\ pc' = IF refresh_due THEN "clear_qdrant" ELSE "retrieve"
    /\ excName' = "none"
    /\ requests' = {}
    /\ ingQueue' = <<>>
    /\ ingChunks' = <<>>
    /\ ingPoints' = <<>>
    /\ qr' = [QrIdle EXCEPT !.query = query, !.template_name = template_name,
                            !.today_str = today]
    /\ UNCHANGED <<storeVars, chunkVars, tmplVars, pollVars, parseVars, concVars>>

\* clear_all_qdrant(): the collections are deleted; any exception is printed
\* and swallowed
clear_all_qdrant ==
    /\ pc = "clear_qdrant"
    /\ \E ok \in BOOLEAN :
         IF ok THEN qExists' = FALSE /\ qPoints' = <<>> /\ csvColl' = NoCollection
         ELSE UNCHANGED <<qExists, qPoints, csvColl>>
    /\ pc' = "clear_redis"
    /\ requests' = requests \cup {"delete_collection"}
    /\ UNCHANGED <<today, lastUpdate, redis, arFile, apFile>>
    /\ UNCHANGED <<op, excName, ingQueue, ingChunks, ingPoints, qr>>
    /\ UNCHANGED <<chunkVars, tmplVars, pollVars, parseVars, concVars>>

\* clear_all_redis(): flushall; any exception is printed and swallowed
clear_all_redis ==
    /\ pc = "clear_redis"
    /\ \E ok \in BOOLEAN :
         IF ok THEN redis' = <<>> ELSE UNCHANGED redis
    /\ pc' = "update_ap"
    /\ requests' = requests \cup {"flushall"}
    /\ UNCHANGED <<today, lastUpdate, qExists, qPoints, arFile, apFile, csvColl>>
    /\ UNCHANGED <<op, excName, ingQueue, ingChunks, ingPoints, qr>>
    /\ UNCHANGED <<chunkVars, tmplVars, pollVars, parseVars, concVars>>

\* update_invoice_status_and_save(<path>) for AP_Invoice.csv, then for
\* AR_Invoice.csv; the path is absolute and may not exist where the program runs
update_invoice_status_and_save_call(which) ==
    /\ pc = (IF which = "AP" THEN "update_ap" ELSE "update_ar")
    /\ requests' = requests \cup {"read_csv"}
    /\ \E found \in BOOLEAN :
         LET file == IF which = "AP" THEN apFile ELSE arFile
             r == update_invoice_status_and_save(file, today)
         IN IF ~found
            THEN /\ pc' = "raised"
                 /\ excName' = "FileNotFoundError"
                 /\ UNCHANGED <<arFile, apFile>>
            ELSE IF r.raised # "none"
            THEN /\ pc' = "raised"
                 /\ excName' = r.raised
                 /\ UNCHANGED <<arFile, apFile>>
            ELSE /\ pc' = (IF which = "AP" THEN "update_ar" ELSE "ingest_all")
                 /\ excName' = "none"
                 /\ IF which = "AP"
                    THEN apFile' = r.file /\ UNCHANGED arFile
                    ELSE arFile' = r.file /\ UNCHANGED apFile
    /\ UNCHANGED <<today, lastUpdate, qExists, qPoints, redis, csvColl>>
    /\ UNCHANGED <<op, ingQueue, ingChunks, ingPoints, qr>>
    /\ UNCHANGED <<chunkVars, tmplVars, pollVars, parseVars, concVars>>

\* ingest_all_data(): the documents of the data directory are ingested from
\* scratch, each by ingest_document.  utils/ingest.py holds no definition of
\* it; this step follows the specification's description of the refresh.
ingest_all_data ==
    /\ pc = "ingest_all"
    /\ ingQueue' = RefreshDocs
    /\ ingChunks' = <<>>
    /\ ingPoints' = <<>>
    /\ pc' = "ing_begin"
    /\ UNCHANGED <<storeVars, op, excName, requests, qr>>
    /\ UNCHANGED <<chunkVars, tmplVars, pollVars, parseVars, concVars>>

\* today_str is written to data/last_update_date.txt
write_date ==
    /\ pc = "write_date"
    /\ lastUpdate' = qr.today_str
    /\ pc' = "retrieve"
    /\ UNCHANGED <<today, qExists, qPoints, redis, arFile, apFile, csvColl>>
    /\ UNCHANGED <<op, excName, requests, ingQueue, ingChunks, ingPoints, qr>>
    /\ UNCHANGED <<chunkVars, tmplVars, pollVars, parseVars, concVars>>

(***************************************************************************)
(* query_rag (utils/pipeline.py and RAG/src/pipeline.py)                   *)
(***************************************************************************)
\* query_rag(query, template_name) of RAG/src/pipeline.py is called: it runs no
\* daily refresh
rag_query_rag_call(query, template_name) ==
    /\ AtRest
    /\ op' = "RAG.query_rag"
    /\ pc' = "retrieve"
    /\ excName' = "none"
    /\ requests' = {}
    /\ ingQueue' = <<>>
    /\ ingChunks' = <<>>
    /\ ingPoints' = <<>>
    /\ qr' = [QrIdle EXCEPT !.query = query, !.template_name = template_name]
    /\ UNCHANGED <<storeVars, chunkVars, tmplVars, pollVars, parseVars, concVars>>

\* reranked[:2] in utils/pipeline.py, reranked[:5] in RAG/src/pipeline.py
top_matches_limit(operation) == IF operation = "query_rag" THEN 2 ELSE 5

\* the contents of the hits, in the order of the results: utils/pipeline.py
\* keeps the hits whose metadata has a content
RECURSIVE hit_docs(_, _)
hit_docs(store, ids) ==
    IF ids = <<>> THEN <<>>
    ELSE LET metadata == get_metadata(store, Head(ids)) IN
         (IF has_content(metadata) THEN <<metadata.content>> ELSE <<>>)
         \o hit_docs(store, Tail(ids))

\* Step 1: embed the query, search, get_metadata per hit, rerank, join; nothing
\* here is caught
query_rag_retrieve ==
    /\ pc = "retrieve"
    /\ \E failure \in {"none", "embed", "search", "rerank"} :
         LET results == search(qPoints, qr.query, top_k_default)
             misses == {results[k] : k \in {k \in 1..Len(results) :
                            ~has_content(get_metadata(redis, results[k]))}}
             docs == hit_docs(redis, results)
             reranked == rerank(qr.query, docs, top_n_default)
             lookups == IF results = <<>> THEN {} ELSE {"get_metadata"}
             raise(e, made) == /\ pc' = "raised"
                               /\ excName' = e
                               /\ requests' = requests \cup made
                               /\ qr' = [qr EXCEPT !.failure = failure]
         IN IF failure = "embed" THEN raise("EmbeddingError", {"embed_texts"})
            ELSE IF failure = "search"
            THEN raise("QdrantError", {"embed_texts", "search"})
            ELSE IF ~qExists
            THEN \* the collection does not exist: Qdrant answers 404
                 raise("UnexpectedResponse", {"embed_texts", "search"})
            ELSE IF op = "RAG.query_rag" /\ misses # {}
            THEN \* full_metadata["content"] of the empty map
                 /\ pc' = "raised"
                 /\ excName' = "KeyError"
                 /\ requests' = requests \cup {"embed_texts", "search", "get_metadata"}
                 /\ qr' = [qr EXCEPT !.failure = failure, !.results = results,
                                     !.misses = misses]
            ELSE IF failure = "rerank" /\ rerank_calls_remote(docs)
            THEN raise("RerankError",
                       {"embed_texts", "search", "co.rerank"} \cup lookups)
            ELSE /\ pc' = "compose"
                 /\ excName' = "none"
                 /\ requests' = requests \cup {"embed_texts", "search"} \cup lookups
                                 \cup (IF rerank_calls_remote(docs)
                                       THEN {"co.rerank"} ELSE {})
                 /\ qr' = [qr EXCEPT
                             !.failure = failure,
                             !.results = results,
                             !.misses = misses,
                             !.docs = docs,
                             !.reranked = reranked,
                             !.top_matches =
                                 join_docs(FirstN(reranked, top_matches_limit(op)))]
    /\ UNCHANGED <<storeVars, op, ingQueue, ingChunks, ingPoints>>
    /\ UNCHANGED <<chunkVars, tmplVars, pollVars, parseVars, concVars>>

\* Steps 2 to 6: the tables are read, labelled, filtered by the query's intent,
\* serialized and truncated; the documents are read and truncated.  The RAG
\* variant takes the markdown tables whole and truncates them.
query_rag_compose ==
    /\ pc = "compose"
    /\ IF op = "query_rag"
       THEN LET ar_df == label_status(arFile, today)
                ap_df == label_status(apFile, today)
                ar_filtered == filter_by_intent(ar_df, qr.query)
                ap_filtered == filter_by_intent(ap_df, qr.query)
            IN qr' = [qr EXCEPT
                        !.today = today,
                        !.ar_df = ar_df,
                        !.ap_df = ap_df,
                        !.ar_filtered = ar_filtered,
                        !.ap_filtered = ap_filtered,
                        !.ar_csv = truncate_csv(to_csv(ar_filtered)),
                        !.ap_csv = truncate_csv(to_csv(ap_filtered)),
                        !.po_text = truncate(text_chars(Len(pdf_words(PoPath)))),
                        !.reg_text = truncate(text_chars(Len(pdf_words(RegPath))))]
       ELSE qr' = [qr EXCEPT
                     !.ar_csv = [rows |-> <<>>, len |-> truncate(markdown_chars(arFile))],
                     !.ap_csv = [rows |-> <<>>, len |-> truncate(markdown_chars(apFile))],
                     !.po_text = truncate(text_chars(Len(pdf_words(PoPath)))),
                     !.reg_text = truncate(text_chars(Len(pdf_words(RegPath))))]
    /\ pc' = "template"
    /\ requests' = requests \cup (IF op = "query_rag"
                                  THEN {"read_csv", "parse_pdf"}
                                  ELSE {"parse_csv", "parse_pdf"})
    /\ UNCHANGED <<storeVars, op, excName, ingQueue, ingChunks, ingPoints>>
    /\ UNCHANGED <<chunkVars, tmplVars, pollVars, parseVars, concVars>>

\* what call_vllm returns to query_rag: the generated text or one of its
\* messages (it never raises)
CallVllmResults == {GeneratedText, MsgCommError}

\* Steps 7 and 8: load_template, the dates put in, the prompt formatted,
\* call_vllm(prompt)
query_rag_finish ==
    /\ pc = "template"
    /\ LET t == load_template(templates, qr.template_name) IN
         IF t.raised # "none"
         THEN /\ pc' = "raised"
              /\ excName' = t.raised
              /\ requests' = requests \cup {"load_template"}
              /\ UNCHANGED qr
         ELSE \E result \in CallVllmResults :
                /\ pc' = "returned"
                /\ requests' = requests \cup {"load_template", "call_vllm"}
                /\ excName' = "none"
                /\ qr' = [qr EXCEPT
                            !.prompt = [template |-> t.value,
                                        now_str |-> today,
                                        next_week_str |-> qr.today + 7],
                            !.result = result]
    /\ UNCHANGED <<storeVars, op, ingQueue, ingChunks, ingPoints>>
    /\ UNCHANGED <<chunkVars, tmplVars, pollVars, parseVars, concVars>>

(***************************************************************************)
(* The stores under ingestion, daily refreshes and queries                 *)
(***************************************************************************)
\* the invoice files the refresh is run on: one open invoice, or a file with
\* a Due Date that is no date
StoreArFiles ==
    {<<[due |-> DateCell(1), pay |-> PayNotPaid, stored |-> NoStatus]>>,
     <<[due |-> GarbageCell, pay |-> PayPaid, stored |-> NoStatus]>>}

InitStore ==
    /\ today = 1
    /\ lastUpdate = 0
    /\ qExists = FALSE
    /\ qPoints = <<>>
    /\ redis = <<>>
    /\ arFile \in StoreArFiles
    /\ apFile = <<>>
    /\ csvColl = NoCollection
    /\ CallIdle
    /\ ChunkIdle
    /\ TemplIdle
    /\ PollIdle
    /\ ParseIdle
    /\ ConcIdle

NextStore ==
    \/ day_passes
    \/ \E path \in IngestPaths : ingest_document_call(path)
    \/ ingest_document_begin
    \/ ingest_document_store
    \/ ingest_document_upsert
    \/ \E query \in StoreQueries : query_rag_call(query, "default")
    \/ clear_all_qdrant
    \/ clear_all_redis
    \/ \E which \in {"AP", "AR"} : update_invoice_status_and_save_call(which)
    \/ ingest_all_data
    \/ write_date
    \/ \E query \in StoreQueries : rag_query_rag_call(query, "default")
    \/ query_rag_retrieve
    \/ query_rag_compose
    \/ query_rag_finish

SpecStore == InitStore /\ [][NextStore]_vars

(***************************************************************************)
(* Queries on a day whose refresh is done, over the invoice files as they  *)
(* are when the query reads them                                           *)
(***************************************************************************)
\* the contents ingest_all_data has stored, with the ids they got
RefreshContents == pdf_contents(PoPath) \o pdf_contents(RegPath)
RefreshedRedis ==
    [i \in 1..Len(RefreshContents) |->
        json_dumps(full_metadata(metadata_for(RefreshContents[i].doc),
                                 RefreshContents[i], i))]
RefreshedPoints ==
    [i \in 1..Len(RefreshContents) |->
        [vector |-> embed(RefreshContents[i]), payload |-> [chunk_id |-> i]]]

QueryApFiles ==
    {<<>>,
     <<[due |-> DateCell(1), pay |-> PayNotPaid,
        stored |-> [cat |-> "upcoming", days |-> 0]],
       [due |-> DateCell(9), pay |-> PayPaid,
        stored |-> [cat |-> "paid", days |-> 0]]>>}

InitQuery ==
    /\ today \in Days
    /\ lastUpdate = today
    /\ qExists = TRUE
    /\ qPoints = RefreshedPoints
    /\ redis = RefreshedRedis
    /\ arFile \in InvoiceTables
    /\ apFile \in QueryApFiles
    /\ csvColl = NoCollection
    /\ CallIdle
    /\ ChunkIdle
    /\ TemplIdle
    /\ PollIdle
    /\ ParseIdle
    /\ ConcIdle

NextQuery ==
    \/ \E query \in AllQueries : \E template_name \in QueryTemplateNames :
         query_rag_call(query, template_name)
    \/ query_rag_retrieve
    \/ query_rag_compose
    \/ query_rag_finish

SpecQuery == InitQuery /\ [][NextQuery]_vars

(***************************************************************************)
(* Claims on the query pipeline                                            *)
(***************************************************************************)
\* a call of utils query_rag that has labelled and filtered the tables
Composed == op = "query_rag" /\ pc \in {"template", "returned"}

\* the tables as labelled, each with the file it was read from
LabelledTables == {<<qr.ar_df, arFile>>, <<qr.ap_df, apFile>>}

\* C1: for every invoice row and current date, the Status query_rag derives is
\* Unknown iff the due date does not parse; otherwise Paid iff the lower-cased
\* payment status is not "not paid"; otherwise Overdue iff due < today;
\* otherwise Upcoming iff today <= due <= today + 7; otherwise Future.
C1_StatusLabels ==
    Composed =>
        \A t \in LabelledTables :
            /\ Len(t[1]) = Len(t[2])
            /\ \A i \in 1..Len(t[1]) :
                 LET s == t[1][i].Status
                     parses == t[2][i].due.kind = "date"
                     due == t[2][i].due.day
                     unpaid == lower(t[2][i].pay) = not_paid
                     now == qr.today
                 IN /\ s \in {"Unknown", "Paid", "Overdue", "Upcoming", "Future"}
                    /\ (s = "Unknown") <=> ~parses
                    /\ (s = "Paid") <=> (parses /\ ~unpaid)
                    /\ (s = "Overdue") <=> (parses /\ unpaid /\ due < now)
                    /\ (s = "Upcoming") <=>
                           (parses /\ unpaid /\ now <= due /\ due <= now + 7)
                    /\ (s = "Future") <=> (parses /\ unpaid /\ due > now + 7)

\* a row whose due date has passed and whose payment status is not "not paid"
\* was labelled Paid, in a table that also holds an Unknown row
C1_Witness ==
    /\ Composed
    /\ pc = "returned"
    /\ \E i \in 1..Len(arFile) :
         /\ arFile[i].due.kind = "date"
         /\ arFile[i].due.day < qr.today
         /\ lower(arFile[i].pay) # not_paid
         /\ qr.ar_df[i].Status = "Paid"
    /\ \E i \in 1..Len(arFile) : qr.ar_df[i].Status = "Unknown"

\* the rows of a sequence
rows_of(df) == {df[i] : i \in 1..Len(df)}

\* the query's text contains "overdue" (in any case)
AsksOverdue == contains(lower(qr.query), kw_overdue)
AsksUpcoming == \E k \in UpcomingKeywords : contains(lower(qr.query), k)

\* C2 as stated: for any query whose text contains "overdue", the serialized AR
\* and AP tables hold only Overdue rows and are a strict subset of the
\* unfiltered tables.
C2_OverdueStrictSubset ==
    (Composed /\ AsksOverdue) =>
        /\ \A r \in rows_of(qr.ar_csv.rows) \cup rows_of(qr.ap_csv.rows) :
             r.Status = "Overdue"
        /\ Len(qr.ar_filtered) < Len(qr.ar_df)
        /\ Len(qr.ap_filtered) < Len(qr.ap_df)

\* C2, amended: for any query whose lower-cased text contains "overdue" and
\* none of "upcoming", "this week", "next week", the serialized AR and AP tables
\* hold only Overdue rows, and the filtered tables are the Overdue rows of the
\* unfiltered tables (all of the table when every row is Overdue).
C2_OverdueOnly ==
    (Composed /\ AsksOverdue /\ ~AsksUpcoming) =>
        /\ \A r \in rows_of(qr.ar_csv.rows) \cup rows_of(qr.ap_csv.rows) :
             r.Status = "Overdue"
        /\ rows_of(qr.ar_csv.rows) \subseteq rows_of(qr.ar_filtered)
        /\ rows_of(qr.ap_csv.rows) \subseteq rows_of(qr.ap_filtered)
        /\ rows_of(qr.ar_filtered) \subseteq rows_of(qr.ar_df)
        /\ rows_of(qr.ap_filtered) \subseteq rows_of(qr.ap_df)
        /\ Len(qr.ar_filtered) =
               Cardinality({i \in 1..Len(qr.ar_df) : qr.ar_df[i].Status = "Overdue"})
        /\ Len(qr.ap_filtered) =
               Cardinality({i \in 1..Len(qr.ap_df) : qr.ap_df[i].Status = "Overdue"})

\* an "OVERDUE" query over an AR table with an Overdue row and another row: the
\* serialized table is the Overdue row alone
C2_Witness ==
    /\ Composed
    /\ pc = "returned"
    /\ qr.query = QOverdueCaps
    /\ Len(qr.ar_df) = 2
    /\ Len(qr.ar_filtered) = 1
    /\ Len(qr.ar_csv.rows) = 1
    /\ qr.ar_csv.rows[1].Status = "Overdue"

\* C3: in every prompt built by query_rag each context section (AR data, AP
\* data, PO terms, regulations, retrieved hits) is at most max_len characters
\* plus the 3 characters of the ellipsis.
C3_SectionsBounded ==
    (op \in QueryOps /\ pc \in {"template", "returned"}) =>
        \A n \in {qr.ar_csv.len, qr.ap_csv.len, qr.po_text, qr.reg_text,
                  qr.top_matches.len} :
            n <= max_len + EllipsisChars

\* C6: when embedding the query, the search or the rerank call fails during
\* query_rag, the failure is caught, the retrieval section is empty and the
\* call goes on to build the prompt and return.
C6_RetrievalFailureDegrades ==
    (op \in QueryOps /\ qr.failure \in {"embed", "search", "rerank"}) =>
        /\ pc # "raised"
        /\ qr.top_matches.len = 0

(***************************************************************************)
(* Claims on the stores                                                    *)
(***************************************************************************)
\* C4: when search returns a chunk_id the Metadata Store has no entry for,
\* query_rag (each implementation) skips the hit, goes on with the remaining
\* hits and returns without raising.
C4_DanglingHitSkipped ==
    (op \in QueryOps /\ qr.failure = "none" /\ qr.misses # {}) =>
        /\ pc # "raised"
        /\ Len(qr.docs) = Len(qr.results) - Cardinality(qr.misses)

\* C5: in every state reachable through ingest_document calls and daily
\* refreshes, failing or not, every chunk_id with a point in the Vector Index
\* has a Metadata Store entry with a content field.
C5_EveryPointResolves ==
    \A id \in DOMAIN qPoints :
        has_content(get_metadata(redis, qPoints[id].payload.chunk_id))

(***************************************************************************)
(* ingest_csv_to_qdrant_enhanced (utils/ingest.py), over the collection    *)
(* "ar_invoices" and data/AR_Invoice.csv (the call for "ap_invoices" runs  *)
(* the same code)                                                          *)
(***************************************************************************)
\* the greatest point id of a collection, 0 for none
top_id(points) ==
    IF DOMAIN points = {} THEN 0
    ELSE CHOOSE i \in DOMAIN points : \A j \in DOMAIN points : j <= i

\* the point made of a row: the text chunk's embedding, and as payload the whole
\* row, the source file and the normalized payment status
csv_point(row, k, file_path) ==
    [vector |-> <<file_path, k>>,
     payload |-> [row |-> row, source_file |-> file_path,
                  payment_status_keyword |-> strip(lower(row.pay))]]

\* the whole function: everything is inside one try, the exception is printed
\* and swallowed.  recreate_collection deletes the collection and creates it
\* empty; the points get fresh uuids (ids above those the collection held).
ingest_csv_to_qdrant_enhanced_call ==
    /\ AtRest
    /\ top_id(csvColl.points) + Len(arFile) <= MaxIds
    /\ \E failure \in {"none", "read_csv", "recreate_collection", "encode", "upsert"} :
         LET first == top_id(csvColl.points)
             points == [i \in (first + 1)..(first + Len(arFile)) |->
                           csv_point(arFile[i - first], i - first, ArPath)]
             empty == [exists |-> TRUE, points |-> <<>>]
         IN /\ csvColl' =
                  IF failure \in {"read_csv", "recreate_collection"} THEN csvColl
                  ELSE IF failure = "encode" /\ arFile # <<>> THEN empty
                  ELSE IF failure = "upsert" THEN empty
                  ELSE [exists |-> TRUE, points |-> points]
            /\ requests' =
                  IF failure = "read_csv" THEN {"read_csv"}
                  ELSE IF failure = "recreate_collection"
                  THEN {"read_csv", "recreate_collection"}
                  ELSE IF failure = "encode" /\ arFile # <<>>
                  THEN {"read_csv", "recreate_collection", "encode"}
                  ELSE {"read_csv", "recreate_collection", "upsert"}
                       \cup (IF arFile # <<>> THEN {"encode"} ELSE {})
    /\ op' = "ingest_csv_to_qdrant_enhanced"
    /\ pc' = "returned"
    /\ excName' = "none"
    /\ ingQueue' = <<>>
    /\ ingChunks' = <<>>
    /\ ingPoints' = <<>>
    /\ qr' = QrIdle
    /\ UNCHANGED <<today, lastUpdate, qExists, qPoints, redis, arFile, apFile>>
    /\ UNCHANGED <<chunkVars, tmplVars, pollVars, parseVars, concVars>>

(***************************************************************************)
(* Ingestion alone: documents are ingested one after the other, with no    *)
(* clearing in between                                                     *)
(***************************************************************************)
AllIngestPaths == IngestPaths \cup {LongPath, EmptyPath}

InitIngest == InitStore

NextIngest ==
    \/ \E path \in AllIngestPaths : ingest_document_call(path)
    \/ ingest_document_begin
    \/ ingest_document_store
    \/ ingest_document_upsert
    \/ ingest_csv_to_qdrant_enhanced_call

SpecIngest == InitIngest /\ [][NextIngest]_vars

(***************************************************************************)
(* Claims on ingestion                                                     *)
(***************************************************************************)
\* C12: ingest_document called with a path that is neither .pdf nor .csv raises
\* the unsupported-type error before any file read, embedding call, Metadata
\* Store write or Vector Index write; both stores are unchanged.
C12_UnsupportedFailsFast ==
    [][(pc = "ing_begin" /\ op = "ingest_document" /\ Head(ingQueue) = TxtPath) =>
           /\ pc' = "raised"
           /\ excName' = "ValueError"
           /\ requests' = {}
           /\ qExists' = qExists
           /\ qPoints' = qPoints
           /\ redis' = redis
           /\ csvColl' = csvColl]_vars

\* ingest_document("data/notes.txt") has raised over stores that hold chunks
C12_Witness ==
    /\ op = "ingest_document"
    /\ pc = "raised"
    /\ excName = "ValueError"
    /\ requests = {}
    /\ DOMAIN qPoints # {}
    /\ DOMAIN redis # {}

\* every point of old is in new, as it was
points_kept(old, new) ==
    \A id \in DOMAIN old : id \in DOMAIN new /\ new[id] = old[id]

IngestionOps == {"ingest_document", "ingest_csv_to_qdrant_enhanced"}

\* C14: ingestion never destroys points already stored in a collection:
\* initialisation creates the collection only when it is absent, and every step
\* of every ingestion variant leaves the points upserted before in place.
C14_IngestionKeepsPoints ==
    [][op' \in IngestionOps =>
           /\ qExists => qExists'
           /\ points_kept(qPoints, qPoints')
           /\ csvColl.exists => csvColl'.exists
           /\ points_kept(csvColl.points, csvColl'.points)]_vars

\* how many points of the Vector Index resolve to chunk idx of document path
copies(path, idx) ==
    Cardinality({id \in DOMAIN qPoints :
                    /\ has_content(get_metadata(redis, id))
                    /\ get_metadata(redis, id).content.doc = path
                    /\ get_metadata(redis, id).content.idx = idx})

\* C15: ingesting a document again, with no clearing in between, adds one more
\* copy of each of its chunks under new chunk_ids: no chunk_id is reused or
\* overwritten, and each store grows by the document's chunk count per ingest.
C15_ReingestDuplicates ==
    /\ [](\A path \in AllIngestPaths :
            \A i, j \in 1..chunks_of(path) : copies(path, i) = copies(path, j))
    /\ [][/\ (pc = "ing_store" /\ pc' # "raised") =>
                \E id \in DOMAIN redis' :
                    /\ id \notin DOMAIN redis \cup DOMAIN qPoints
                    /\ DOMAIN redis' = DOMAIN redis \cup {id}
                    /\ \A j \in DOMAIN redis : redis'[j] = redis[j]
          /\ (pc = "ing_upsert" /\ pc' = "returned") =>
                LET new == DOMAIN qPoints' \ DOMAIN qPoints IN
                /\ Cardinality(new) = chunks_of(Head(ingQueue))
                /\ new = {ingPoints[k].id : k \in 1..Len(ingPoints)}
                /\ new \subseteq DOMAIN redis
                /\ points_kept(qPoints, qPoints')
                /\ redis' = redis]_vars

\* the two-chunk document was ingested twice: four points under four ids, two
\* copies of each chunk
C15_Witness ==
    /\ op = "ingest_document"
    /\ pc = "returned"
    /\ copies(LongPath, 1) = 2
    /\ copies(LongPath, 2) = 2
    /\ Cardinality(DOMAIN qPoints) = 4
    /\ Cardinality(DOMAIN redis) = 4

\* C16: when ingest_document completes for a document of chunks c1..ck, exactly
\* k new chunk_ids exist; each one's point has the chunk_id as id and a payload
\* holding the chunk_id alone, and get_metadata(chunk_id) is the supplied
\* metadata with content = that chunk's text and the chunk_id.
C16_IngestWrites ==
    [][(op = "ingest_document" /\ pc = "ing_upsert" /\ pc' = "returned") =>
           LET path == Head(ingQueue)
               supplied == metadata_for(path)
               texts == IF path = ArPath THEN csv_contents(path, arFile)
                        ELSE pdf_contents(path)
               new == DOMAIN qPoints' \ DOMAIN qPoints
           IN /\ Len(ingPoints) = Len(texts)
              /\ Cardinality(new) = Len(texts)
              /\ \A k \in 1..Len(ingPoints) :
                   LET id == ingPoints[k].id
                       m == get_metadata(redis', id)
                   IN /\ id \in new
                      /\ DOMAIN qPoints'[id].payload = {"chunk_id"}
                      /\ qPoints'[id].payload.chunk_id = id
                      /\ DOMAIN m = DOMAIN supplied \cup {"content", "chunk_id"}
                      /\ \A key \in DOMAIN supplied : m[key] = supplied[key]
                      /\ m.content = texts[k]
                      /\ m.chunk_id = id]_vars

\* the two-chunk document was ingested: two points, each resolving to its chunk
C16_Witness ==
    /\ op = "ingest_document"
    /\ pc = "returned"
    /\ Cardinality(DOMAIN qPoints) = 2
    /\ \E a, b \in DOMAIN qPoints :
         /\ a # b
         /\ get_metadata(redis, a).content = pdf_contents(LongPath)[1]
         /\ get_metadata(redis, b).content = pdf_contents(LongPath)[2]
         /\ get_metadata(redis, a).source_type = "upload"

(***************************************************************************)
(* Claims on the stores during a query                                     *)
(***************************************************************************)
\* C13: a query_rag call modifies neither the Metadata Store, nor the Vector
\* Index, nor the Template Store, whatever the stored last-update date: every
\* step of the call leaves their contents as they were.
C13_QueryKeepsStores ==
    [][(op \in QueryOps /\ op' \in QueryOps) =>
           /\ redis' = redis
           /\ qExists' = qExists
           /\ qPoints' = qPoints
           /\ csvColl' = csvColl
           /\ templates' = templates]_vars

\* C19: rerank with an empty docs list returns the empty list without calling
\* the remote rerank service, so a query_rag call whose retrieval resolves no
\* document issues no rerank request (and cannot fail on the rerank service).
C19_EmptyDocsNoRerank ==
    /\ [](rerank(qr.query, <<>>, top_n_default) = <<>>)
    /\ [][(op \in QueryOps /\ pc = "retrieve" /\ qExists
             /\ hit_docs(redis, search(qPoints, qr.query, top_k_default)) = <<>>
             /\ qr'.failure \in {"none", "rerank"}) =>
               /\ "co.rerank" \notin requests'
               /\ excName' # "RerankError"
               /\ pc' = "compose" => qr'.reranked = <<>>]_vars

\* a query went on to compose its prompt with no document resolved while the
\* rerank service was down, having sent it nothing
C19_Witness ==
    /\ op \in QueryOps
    /\ pc = "compose"
    /\ qr.failure = "rerank"
    /\ qr.docs = <<>>
    /\ qr.reranked = <<>>
    /\ "search" \in requests
    /\ "co.rerank" \notin requests

\* C20: with Qdrant reachable, search returns at most top_k results, best match
\* first, and the empty sequence, not an error, whenever the index holds no
\* points, in every state reached through ingestion and the daily clear.
C20_SearchNeverFailsOnEmpty ==
    [][(op \in QueryOps /\ pc = "retrieve" /\ qr'.failure = "none") =>
           /\ excName' # "UnexpectedResponse"
           /\ Len(qr'.results) <= top_k_default
           /\ \A i, j \in 1..Len(qr'.results) :
                i < j => similarity(qr.query, qPoints[qr'.results[i]].vector)
                           >= similarity(qr.query, qPoints[qr'.results[j]].vector)
           /\ (DOMAIN qPoints = {} /\ pc' = "compose") => qr'.results = <<>>]_vars

(***************************************************************************)
(* Claims on the intent filter and the recomputed Status                   *)
(***************************************************************************)
\* the rows of df with that Status, in df's order
rows_with_status(df, status) ==
    LET has_status(r) == r.Status = status IN SelectSeq(df, has_status)

\* C17: every query has exactly one intent, by case-insensitive substring match:
\* "upcoming" if it contains "upcoming", "this week" or "next week"; otherwise
\* "overdue" if it contains "overdue", "late" or "crossed"; otherwise "general".
\* Upcoming and overdue keep exactly the rows whose Status is Upcoming,
\* respectively Overdue, in original order; general passes both tables whole.
C17_IntentFilter ==
    Composed =>
        LET q_lower == lower(qr.query)
            upcoming == \/ contains(q_lower, kw_upcoming)
                        \/ contains(q_lower, kw_this_week)
                        \/ contains(q_lower, kw_next_week)
            overdue == \/ contains(q_lower, kw_overdue)
                       \/ contains(q_lower, kw_late)
                       \/ contains(q_lower, kw_crossed)
            kept(df) == IF upcoming THEN rows_with_status(df, "Upcoming")
                        ELSE IF overdue THEN rows_with_status(df, "Overdue")
                        ELSE df
        IN /\ qr.ar_filtered = kept(qr.ar_df)
           /\ qr.ap_filtered = kept(qr.ap_df)

\* "upcoming overdue" over an AR table of an Overdue row and an Upcoming row:
\* the Upcoming row alone is kept
C17_Witness ==
    /\ Composed
    /\ qr.query = QUpcomingOverdue
    /\ Len(qr.ar_df) = 2
    /\ qr.ar_df[1].Status = "Overdue"
    /\ qr.ar_df[2].Status = "Upcoming"
    /\ qr.ar_filtered = <<qr.ar_df[2]>>

\* C18: the Status query_rag filters on and serializes is recomputed in the
\* call from (Due Date, Payment Status, the call's current date) alone: rows
\* with the same Due Date and Payment Status get the same Status whatever
\* Status their files hold, and the serialized rows are rows so labelled.
C18_StatusRecomputed ==
    Composed =>
        /\ \A t, u \in LabelledTables :
             \A i \in 1..Len(t[2]) : \A j \in 1..Len(u[2]) :
                (t[2][i].due = u[2][j].due /\ t[2][i].pay = u[2][j].pay)
                    => t[1][i].Status = u[1][j].Status
        /\ \A t \in LabelledTables : \A i \in 1..Len(t[2]) :
             t[1][i].Status \in {"Unknown", "Paid", "Overdue", "Upcoming", "Future"}
        /\ rows_of(qr.ar_csv.rows) \subseteq rows_of(qr.ar_df)
        /\ rows_of(qr.ap_csv.rows) \subseteq rows_of(qr.ap_df)

\* the AP file holds "upcoming" from an earlier day for an invoice now overdue,
\* the AR file holds no Status for an invoice with the same cells: both rows are
\* labelled Overdue and serialized so
C18_Witness ==
    /\ Composed
    /\ \E i \in 1..Len(arFile) : \E j \in 1..Len(apFile) :
         /\ arFile[i].due = apFile[j].due
         /\ arFile[i].pay = apFile[j].pay
         /\ arFile[i].stored = NoStatus
         /\ apFile[j].stored.cat = "upcoming"
         /\ qr.ar_df[i].Status = "Overdue"
         /\ qr.ap_df[j].Status = "Overdue"
         /\ \E k \in 1..Len(qr.ap_csv.rows) : qr.ap_csv.rows[k].Status = "Overdue"

(***************************************************************************)
(* Claims on documents without content                                     *)
(***************************************************************************)
\* C22: when parse_pdf yields empty or whitespace-only text, so that chunk_text
\* yields no chunks, ingest_document takes it for no content: the call
\* completes without raising and writes nothing to the Metadata Store or the
\* Vector Index (it fails only when the embedding model or Qdrant cannot be
\* reached).
C22_EmptyDocumentIsNoContent ==
    [][(op = "ingest_document" /\ pc = "ing_begin" /\ Head(ingQueue) = EmptyPath
          /\ pdf_contents(EmptyPath) = <<>>) =>
           /\ pc' = "raised" => excName' \in {"EmbeddingError", "QdrantError"}
           /\ redis' = redis
           /\ qPoints' = qPoints]_vars

(***************************************************************************)
(* Claims on the retrieval section                                         *)
(***************************************************************************)
\* C23: the retrieval section of the prompt holds exactly min(N, number of
\* resolved documents) reranked documents, most relevant first, with N = 2 in
\* utils/pipeline.query_rag and N = 5 in RAG/src/pipeline.query_rag.
C23_TopNDocuments ==
    (op \in QueryOps /\ pc \in {"compose", "template", "returned"}) =>
        LET N == IF op = "query_rag" THEN 2 ELSE 5
            section == qr.top_matches.docs
        IN /\ Len(section) = Min(N, Len(qr.docs))
           /\ \A i \in 1..Len(section) : \E k \in 1..Len(qr.docs) : section[i] = qr.docs[k]
           /\ \A i, j \in 1..Len(section) :
                i < j => relevance(qr.query, section[i]) >= relevance(qr.query, section[j])

(***************************************************************************)
(* Claims on the daily refresh                                             *)
(***************************************************************************)
\* the calls a refresh makes before it writes the date
RefreshSteps ==
    {"delete_collection", "flushall", "read_csv", "parse_pdf", "embed_texts",
     "init_collection", "store_metadata", "upsert_embeddings"}

RefreshCompleted ==
    /\ op = "query_rag"
    /\ pc = "retrieve"
    /\ RefreshSteps \subseteq requests

\* C26: whenever a daily refresh completes (the last-update date is set), the
\* Vector Index and the Metadata Store hold the chunks ingested during that
\* refresh and none from before it, also when clear_all_qdrant or
\* clear_all_redis met an error.
C26_RefreshLeavesOnlyFreshChunks ==
    RefreshCompleted =>
        /\ Cardinality(DOMAIN qPoints) = Len(RefreshContents)
        /\ Cardinality(DOMAIN redis) = Len(RefreshContents)
        /\ \A i \in 1..Len(RefreshContents) :
             /\ \E id \in DOMAIN qPoints : get_metadata(redis, id).content = RefreshContents[i]

\* C27: within one query_rag call, the dates put in for {current_date} and
\* {current_date_plus_6_days} are exactly 7 days apart, and {current_date} is
\* the date used as "today" for the Status labels, even if the wall-clock date
\* changes while the call runs.
C27_PromptDatesAgree ==
    (op = "query_rag" /\ pc = "returned") =>
        /\ qr.prompt.next_week_str - qr.prompt.now_str = 7
        /\ qr.prompt.now_str = qr.today

(***************************************************************************)
(* The two status computations on one day: force_ap_update.py (the code of *)
(* update_invoice_status_and_save, run by hand on AP_Invoice.csv) and the  *)
(* labels of query_rag, over payment statuses of any text                  *)
(***************************************************************************)
PayPending == <<"P", "e", "n", "d", "i", "n", "g">>
PayPaidSpace == <<"P", "a", "i", "d", " ">>
PayNotPaidSpace == <<"N", "o", "t", " ", "P", "a", "i", "d", " ">>
\* str() of an empty cell
PayNan == <<"n", "a", "n">>
AnyPaymentStatuses ==
    PaymentStatuses \cup {PayPending, PayPaidSpace, PayNotPaidSpace, PayNan}

\* AP files whose due dates all parse
ParseableRows ==
    [due : DueCells \ {GarbageCell}, pay : AnyPaymentStatuses, stored : {NoStatus}]
ParseableTables == UNION {[1..n -> ParseableRows] : n \in 0..MaxRows}

InitStatus ==
    /\ today \in Days
    /\ lastUpdate = today
    /\ qExists = TRUE
    /\ qPoints = RefreshedPoints
    /\ redis = RefreshedRedis
    /\ arFile = <<>>
    /\ apFile \in ParseableTables
    /\ csvColl = NoCollection
    /\ CallIdle
    /\ ChunkIdle
    /\ TemplIdle
    /\ PollIdle
    /\ ParseIdle
    /\ ConcIdle

\* python force_ap_update.py: update_ap_invoice_status("data/AP_Invoice.csv")
update_ap_invoice_status ==
    /\ AtRest
    /\ LET r == update_invoice_status_and_save(apFile, today) IN
         /\ apFile' = r.file
         /\ pc' = IF r.raised = "none" THEN "returned" ELSE "raised"
         /\ excName' = r.raised
    /\ op' = "update_ap_invoice_status"
    /\ requests' = {"read_csv"} \cup (IF pc' = "returned" THEN {"to_csv"} ELSE {})
    /\ ingQueue' = <<>>
    /\ ingChunks' = <<>>
    /\ ingPoints' = <<>>
    /\ qr' = QrIdle
    /\ UNCHANGED <<today, lastUpdate, qExists, qPoints, redis, arFile, csvColl>>
    /\ UNCHANGED <<chunkVars, tmplVars, pollVars, parseVars, concVars>>

NextStatus ==
    \/ update_ap_invoice_status
    \/ query_rag_call(QTotals, "default")
    \/ query_rag_retrieve
    \/ query_rag_compose
    \/ query_rag_finish

SpecStatus == InitStatus /\ [][NextStatus]_vars

\* the label of query_rag in lower case
label_lower(status) ==
    CASE status = "Paid" -> "paid"
      [] status = "Overdue" -> "overdue"
      [] status = "Upcoming" -> "upcoming"
      [] status = "Future" -> "future"
      [] OTHER -> "unknown"

\* C29: for every invoice row with a parseable due date and any payment
\* status, the status category (paid / overdue / upcoming / future) that
\* update_invoice_status_and_save writes to the CSV on a day equals, up to
\* letter case, the Status label_status derives for that row on that day.
C29_WrittenStatusIsLabel ==
    Composed =>
        \A i \in 1..Len(apFile) :
            apFile[i].stored # NoStatus =>
                apFile[i].stored.cat = label_lower(qr.ap_df[i].Status)

(***************************************************************************)
(* parse_csv (utils/parser.py).  A string is the sequence of its           *)
(* characters; the file is what csv.reader yields for it, a list of rows   *)
(* of cells.                                                               *)
(***************************************************************************)
MaxCols == 2
Newline == "\n"

\* sep.join(strs)
RECURSIVE str_join(_, _)
str_join(sep, strs) ==
    IF strs = <<>> THEN <<>>
    ELSE IF Len(strs) = 1 THEN strs[1]
    ELSE strs[1] \o sep \o str_join(sep, Tail(strs))

\* "---|" * n
RECURSIVE dashes(_)
dashes(n) == IF n = 0 THEN <<>> ELSE <<"-", "-", "-", "|">> \o dashes(n - 1)

\* "| " + " | ".join(row) + " |"
row_line(row) == <<"|", " ">> \o str_join(<<" ", "|", " ">>, row) \o <<" ", "|">>

\* parse_csv(path): the header line, the separator line and one line per record,
\* joined by newlines, in a list of one string
parse_csv(rows) ==
    LET header == Head(rows)
        table == <<row_line(header), <<"|">> \o dashes(Len(header))>>
                 \o [k \in 1..(Len(rows) - 1) |-> row_line(rows[k + 1])]
    IN <<str_join(<<Newline>>, table)>>

\* the cells of the files: plain text, text with a pipe character, an empty cell
CellValues == {<<"a">>, <<"x", "|", "y">>, <<>>}
HeaderCells == {<<"h">>}

\* the files: a header of 1..MaxCols cells and up to MaxRows records of as many cells
CsvFiles ==
    UNION {{<<h>> \o recs : h \in [1..n -> HeaderCells],
                           recs \in UNION {[1..m -> [1..n -> CellValues]] : m \in 0..MaxRows}}
           : n \in 1..MaxCols}

InitParse ==
    /\ csvReader \in CsvFiles
    /\ tablePc = "call"
    /\ tableOut = <<>>
    /\ ConcIdle
    /\ ChunkIdle
    /\ TemplIdle
    /\ PollIdle
    /\ PipeIdle

parse_csv_call ==
    /\ tablePc = "call"
    /\ tableOut' = parse_csv(csvReader)
    /\ tablePc' = "returned"
    /\ UNCHANGED <<csvReader, concVars, chunkVars, tmplVars, pollVars, pipeVars>>

NextParse == parse_csv_call

SpecParse == InitParse /\ [][NextParse]_vars

\* the lines of a string
RECURSIVE split_lines(_)
split_lines(str) ==
    IF \A i \in 1..Len(str) : str[i] # Newline THEN <<str>>
    ELSE LET i == CHOOSE i \in 1..Len(str) :
                      str[i] = Newline /\ \A j \in 1..(i - 1) : str[j] # Newline
         IN <<SubSeq(str, 1, i - 1)>> \o split_lines(SubSeq(str, i + 1, Len(str)))

\* the cells of a markdown table row: the pipes that are not escaped by a
\* backslash delimit them
md_cells(line) ==
    Cardinality({i \in 1..Len(line) :
                    line[i] = "|" /\ (i = 1 \/ line[i - 1] # "\\")}) - 1

\* C21: parse_csv returns a list of one string, a markdown table made of the
\* header row, a separator row and one row per record in input order, and
\* every rendered row has exactly as many cells as the header, also when a
\* cell value holds a pipe character.
C21_MarkdownTable ==
    tablePc = "returned" =>
        /\ Len(tableOut) = 1
        /\ LET lines == split_lines(tableOut[1])
               header == Head(csvReader)
           IN /\ Len(lines) = Len(csvReader) + 1
              /\ md_cells(lines[1]) = Len(header)
              /\ md_cells(lines[2]) = Len(header)
              /\ \A i \in 1..Len(lines[2]) : lines[2][i] \in {"|", "-"}
              /\ \A k \in 2..Len(csvReader) :
                   /\ md_cells(lines[k + 1]) = Len(header)
                   /\ \A c \in 1..Len(csvReader[k]) :
                        \A i \in 1..Len(csvReader[k][c]) :
                           csvReader[k][c][i] # "|" =>
                              \E j \in 1..Len(lines[k + 1]) :
                                 lines[k + 1][j] = csvReader[k][c][i]

(***************************************************************************)
(* Two query_rag calls of utils/pipeline.py at the same time (two sessions *)
(* of the dashboard).  The first call runs as above; the second runs the   *)
(* same code, followed from one call of check_and_update_data to the next: *)
(* the stores and the date file are shared, nothing in the code makes one  *)
(* call wait for the other.                                                *)
(***************************************************************************)
\* the second call starts: today_str is compared with the stored date
query_rag_call_B ==
    /\ pcB = "idle"
    /\ todayStrB' = today
    /\ pcB' = IF refresh_due THEN "clear_qdrant" ELSE "retrieve"
    /\ resultsB' = <<>>
    /\ UNCHANGED <<chunkVars, tmplVars, pollVars, pipeVars, parseVars>>

\* its clear_all_qdrant(): exceptions are swallowed
clear_all_qdrant_B ==
    /\ pcB = "clear_qdrant"
    /\ \E ok \in BOOLEAN :
         IF ok THEN qExists' = FALSE /\ qPoints' = <<>> /\ csvColl' = NoCollection
         ELSE UNCHANGED <<qExists, qPoints, csvColl>>
    /\ pcB' = "clear_redis"
    /\ UNCHANGED <<today, lastUpdate, redis, arFile, apFile>>
    /\ UNCHANGED <<todayStrB, resultsB>>
    /\ UNCHANGED <<callVars, chunkVars, tmplVars, pollVars, parseVars>>

\* its clear_all_redis(): exceptions are swallowed
clear_all_redis_B ==
    /\ pcB = "clear_redis"
    /\ \E ok \in BOOLEAN :
         IF ok THEN redis' = <<>> ELSE UNCHANGED redis
    /\ pcB' = "update"
    /\ UNCHANGED <<today, lastUpdate, qExists, qPoints, arFile, apFile, csvColl>>
    /\ UNCHANGED <<todayStrB, resultsB>>
    /\ UNCHANGED <<callVars, chunkVars, tmplVars, pollVars, parseVars>>

\* its two update_invoice_status_and_save calls, AP then AR
update_invoice_status_and_save_B ==
    /\ pcB = "update"
    /\ \E found \in BOOLEAN :
         LET ap == update_invoice_status_and_save(apFile, today)
             ar == update_invoice_status_and_save(arFile, today)
         IN IF ~found \/ ap.raised # "none"
            THEN pcB' = "raised" /\ UNCHANGED <<arFile, apFile>>
            ELSE IF ar.raised # "none"
            THEN pcB' = "raised" /\ apFile' = ap.file /\ UNCHANGED arFile
            ELSE pcB' = "ingest_all" /\ apFile' = ap.file /\ arFile' = ar.file
    /\ UNCHANGED <<today, lastUpdate, qExists, qPoints, redis, csvColl>>
    /\ UNCHANGED <<todayStrB, resultsB>>
    /\ UNCHANGED <<callVars, chunkVars, tmplVars, pollVars, parseVars>>

\* the stores after the chunks `contents` were stored and upserted under fresh ids
RECURSIVE ingested(_, _, _)
ingested(store, points, contents) ==
    IF contents = <<>> THEN [redis |-> store, points |-> points]
    ELSE LET chunk_id == uuid4(store, points)
             chunk == Head(contents)
         IN ingested(store_metadata(store, chunk_id,
                                    full_metadata(metadata_for(chunk.doc), chunk, chunk_id)),
                     (chunk_id :> [vector |-> embed(chunk),
                                   payload |-> [chunk_id |-> chunk_id]]) @@ points,
                     Tail(contents))

\* its ingest_all_data(): the documents of the refresh are ingested, or the
\* ingestion fails before it wrote anything
ingest_all_data_B ==
    /\ pcB = "ingest_all"
    /\ Cardinality(ids_in_use(redis, qPoints)) + RefreshIds <= MaxIds
    /\ \E ok \in BOOLEAN :
         IF ok
         THEN LET r == ingested(redis, qPoints, RefreshContents) IN
              /\ qExists' = TRUE
              /\ redis' = r.redis
              /\ qPoints' = r.points
              /\ pcB' = "write_date"
         ELSE /\ pcB' = "raised"
              /\ UNCHANGED <<qExists, redis, qPoints>>
    /\ UNCHANGED <<today, lastUpdate, arFile, apFile, csvColl>>
    /\ UNCHANGED <<todayStrB, resultsB>>
    /\ UNCHANGED <<callVars, chunkVars, tmplVars, pollVars, parseVars>>

\* its today_str is written to the date file
write_date_B ==
    /\ pcB = "write_date"
    /\ lastUpdate' = todayStrB
    /\ pcB' = "retrieve"
    /\ UNCHANGED <<today, qExists, qPoints, redis, arFile, apFile, csvColl>>
    /\ UNCHANGED <<todayStrB, resultsB>>
    /\ UNCHANGED <<callVars, chunkVars, tmplVars, pollVars, parseVars>>

\* its step 1: the search (an absent collection makes it raise)
query_rag_retrieve_B ==
    /\ pcB = "retrieve"
    /\ IF qExists
       THEN /\ resultsB' = search(qPoints, QTotals, top_k_default)
            /\ pcB' = "searched"
       ELSE /\ resultsB' = <<>>
            /\ pcB' = "raised"
    /\ UNCHANGED todayStrB
    /\ UNCHANGED <<chunkVars, tmplVars, pollVars, pipeVars, parseVars>>

\* a new day has started; the stores hold the chunks of the last refresh
InitConc ==
    /\ today = 1
    /\ lastUpdate = 0
    /\ qExists = TRUE
    /\ qPoints = RefreshedPoints
    /\ redis = RefreshedRedis
    /\ arFile = <<>>
    /\ apFile = <<>>
    /\ csvColl = NoCollection
    /\ CallIdle
    /\ ConcIdle
    /\ ParseIdle
    /\ ChunkIdle
    /\ TemplIdle
    /\ PollIdle

NextConc ==
    \/ query_rag_call(QTotals, "default")
    \/ clear_all_qdrant
    \/ clear_all_redis
    \/ \E which \in {"AP", "AR"} : update_invoice_status_and_save_call(which)
    \/ ingest_all_data
    \/ ingest_document_begin
    \/ ingest_document_store
    \/ ingest_document_upsert
    \/ write_date
    \/ query_rag_retrieve
    \/ query_rag_call_B
    \/ clear_all_qdrant_B
    \/ clear_all_redis_B
    \/ update_invoice_status_and_save_B
    \/ ingest_all_data_B
    \/ write_date_B
    \/ query_rag_retrieve_B

SpecConc == InitConc /\ [][NextConc]_vars

\* the positions of a call inside the refresh
RefreshPcs ==
    {"clear_qdrant", "clear_redis", "update_ap", "update_ar", "update", "ingest_all",
     "ing_begin", "ing_store", "ing_upsert", "write_date"}

\* C25: when two query_rag calls run at the same time as the first queries of
\* a new day, the refresh takes effect once: the two refreshes do not overlap,
\* no call searches while the other is clearing or re-ingesting, and once both
\* are through the stores hold one copy of each chunk of the refresh and no
\* point without metadata.
C25_ConcurrentRefreshOnce ==
    /\ ~(pc \in RefreshPcs /\ pcB \in RefreshPcs)
    /\ ~(pc = "retrieve" /\ pcB \in RefreshPcs)
    /\ ~(pcB = "retrieve" /\ pc \in RefreshPcs)
    /\ (pcB = "searched" /\ op = "query_rag" /\ pc = "compose") =>
          /\ \A path \in {PoPath, RegPath} : copies(path, 1) <= 1
          /\ \A id \in DOMAIN qPoints : has_content(get_metadata(redis, id))

====
